---- MODULE Spec2Model ----
(***************************************************************************)
(* Model of the reddit2markdown edge worker (worker/src/index.ts in its    *)
(* current form, with the crawler preview): URL validation, the upstream   *)
(* fetch pipeline with its response cache, the JSON API handler and the    *)
(* Open Graph preview handler.                                             *)
(*                                                                         *)
(* Text is modelled as a sequence of tokens.  A token is a run of          *)
(* characters that the code never looks inside; the delimiters the code    *)
(* and the URL parser do look at ("//", "/", "?...", "#...", ".json") are  *)
(* tokens of their own.  Parsing, normalising, matching and building URLs  *)
(* are computed on these sequences.                                        *)
(***************************************************************************)
EXTENDS Integers, Sequences, FiniteSets, TLC

VARIABLES
    pc,       \* per request: where its handler is suspended
    inp,      \* per request: the inbound request (handler, method, url parameter)
    val,      \* per request: the ValidateResult of its url parameter
    timer,    \* per request: the state of the deadline timer of its upstream fetch
    sent,     \* per request: the upstream requests it has issued
    up,       \* per request: the upstream response whose headers it has received
    out,      \* per request: the outcome of its handler (a Response, or a thrown exception)
    io,       \* per request: how many cache reads, upstream fetches, body reads, cache writes it did
    prior,    \* per request: what `served` held for its key when it looked the cache up
    cache,    \* caches.default: upstream URL -> stored entry
    served,   \* per upstream URL: the last 200 the API gave for it while its entry is unexpired
    puts,     \* per upstream URL with an entry: the requests that wrote it since its window began, in order
    vpc,      \* validation harness: its position
    vtarget,  \* validation harness: the url parameter under test
    vfirst,   \* validation harness: validateRedditUrl(vtarget)
    vagain,   \* validation harness: validateRedditUrl of the jsonUrl of vfirst
    raw,      \* router: the inbound request as the entrypoint received it
    route,    \* router: the branch of the entrypoint that handled it
    fwd,      \* router: the request the worker forwarded, if the branch forwards
    agent,    \* crawler detector harness: the User-Agent header under test
    crawler,  \* crawler detector harness: what isCrawler answered for it
    formUrl,  \* browser client: the url prop of RedditForm
    cpc,      \* browser client: where convert is suspended
    loading,  \* browser client: the loading state of RedditForm
    error,    \* browser client: the error state of RedditForm ('' is the empty sequence)
    data,     \* browser client: the parsed payload convert holds
    calls,    \* browser client: the fetch calls of the conversion, in order
    direct,   \* browser client: how the direct attempt of the conversion went
    submits   \* browser client: the onSubmit calls of the conversion, in order

vars == <<pc, inp, val, timer, sent, up, out, io, prior, cache, served, puts,
          vpc, vtarget, vfirst, vagain, raw, route, fwd, agent, crawler,
          formUrl, cpc, loading, error, data, calls, direct, submits>>

workerVars == <<pc, inp, val, timer, sent, up, out, io, prior, cache, served, puts>>
clientVars == <<formUrl, cpc, loading, error, data, calls, direct, submits>>

\* what no step of the worker touches: the harnesses and the browser client
harnessVars == <<vpc, vtarget, vfirst, vagain, agent, crawler, clientVars>>
routerVars == <<raw, route, fwd>>

----------------------------------------------------------------------------
(* Constants of the worker *)

ALLOWED_HOSTS == {"www.reddit.com", "old.reddit.com"}

MAX_RESPONSE_BYTES == 5 * 1024 * 1024

CACHE_TTL_SECONDS == 60

UPSTREAM_UA ==
    "Mozilla/5.0 (compatible; r2md/1.0; +https://peirce.net/reddit) AppleWebKit/537.36"

----------------------------------------------------------------------------
(* The url query parameter: searchParams.get('url') is null or a string *)

Absent == [present |-> FALSE, text |-> <<>>]

Param(text) == [present |-> TRUE, text |-> text]

\* JavaScript truthiness of a string | null: null and '' are falsy
Truthy(p) == p.present /\ p.text # <<>>

----------------------------------------------------------------------------
(* URL text *)

SchemeTokens == {"https:", "HTTPS:", "http:"}
UserinfoTokens == {"user:pw@"}
HostTokens == {"www.reddit.com", "WWW.Reddit.com", "old.reddit.com",
               "evil.com", "www.reddit.com.evil.com"}
PortTokens == {":8443"}
QueryTokens == {"?limit=5"}
FragmentTokens == {"#top"}

Opt(tok) == IF tok = "" THEN <<>> ELSE <<tok>>

\* the text of a URL written with these parts
UrlText(scheme, userinfo, host, port, path, query, fragment) ==
    <<scheme, "//">> \o Opt(userinfo) \o <<host>> \o Opt(port) \o path
        \o Opt(query) \o Opt(fragment)

\* ASCII lower-casing of the tokens that have upper-case letters
ToLower(tok) ==
    CASE tok = "HTTPS:" -> "https:"
      [] tok = "WWW.Reddit.com" -> "www.reddit.com"
      [] tok = "Slackbot" -> "slackbot"
      [] tok = "Discordbot" -> "discordbot"
      [] tok = "Twitterbot" -> "twitterbot"
      [] tok = "TwitterBot" -> "twitterbot"
      [] tok = "LinkedInBot" -> "linkedinbot"
      [] tok = "AppleBot" -> "applebot"
      [] tok = "WhatsApp" -> "whatsapp"
      [] tok = "TelegramBot" -> "telegrambot"
      [] tok = "WHATSAPP" -> "whatsapp"
      [] tok = "FacebookExternalHit" -> "facebookexternalhit"
      [] tok = "Googlebot" -> "googlebot"
      [] tok = "Mozilla/5.0 " -> "mozilla/5.0 "
      [] tok = "Mozilla/5.0 (Macintosh; Intel Mac OS X 10_15_7) AppleWebKit/537.36"
            -> "mozilla/5.0 (macintosh; intel mac os x 10_15_7) applewebkit/537.36"
      [] tok = "-LinkExpanding 1.0 (+https://api.slack.com/robots)"
            -> "-linkexpanding 1.0 (+https://api.slack.com/robots)"
      [] OTHER -> tok

\* the path percent-encode set applied to one token
PathEncode(tok) == IF tok = " " THEN "%20" ELSE tok

RECURSIVE UntilSlash(_)
\* the longest prefix of p that holds no "/"
UntilSlash(p) ==
    IF p = <<>> \/ Head(p) = "/" THEN <<>>
    ELSE <<Head(p)>> \o UntilSlash(Tail(p))

RECURSIVE SplitSegments(_)
\* "/a/b/" -> << <<"a">>, <<"b">>, <<>> >>: the segments after each "/"
SplitSegments(p) ==
    IF p = <<>> THEN <<>>
    ELSE LET seg == UntilSlash(Tail(p))
         IN  <<seg>> \o SplitSegments(SubSeq(p, Len(seg) + 2, Len(p)))

RECURSIVE JoinSegments(_)
JoinSegments(segs) ==
    IF segs = <<>> THEN <<>>
    ELSE <<"/">> \o Head(segs) \o JoinSegments(Tail(segs))

IsSingleDot(seg) == seg = <<".">>
IsDoubleDot(seg) == seg = <<"..">>

Shorten(path) == IF path = <<>> THEN <<>> ELSE SubSeq(path, 1, Len(path) - 1)

RECURSIVE PathState(_, _)
\* the URL parser's path state: dot segments are resolved, the rest is
\* percent-encoded and appended
PathState(segs, path) ==
    IF segs = <<>> THEN path
    ELSE LET seg == Head(segs)
             last == Len(segs) = 1
             next == IF IsDoubleDot(seg)
                        THEN IF last THEN Shorten(path) \o << <<>> >> ELSE Shorten(path)
                     ELSE IF IsSingleDot(seg)
                        THEN IF last THEN path \o << <<>> >> ELSE path
                     ELSE path \o <<[i \in DOMAIN seg |-> PathEncode(seg[i])]>>
         IN  PathState(Tail(segs), next)

\* URL.pathname of a special-scheme URL whose path text is p
Pathname(p) ==
    IF p = <<>> THEN <<"/">>
    ELSE JoinSegments(PathState(SplitSegments(p), <<>>))

RECURSIVE PathPrefix(_)
\* the path part of what follows the authority: up to the query or fragment
PathPrefix(s) ==
    IF s = <<>> \/ Head(s) \in QueryTokens \cup FragmentTokens THEN <<>>
    ELSE <<Head(s)>> \o PathPrefix(Tail(s))

ParseFailure ==
    [ok |-> FALSE, protocol |-> "", username |-> "", hostname |-> "", port |-> "",
     pathname |-> <<>>, search |-> "", hash |-> ""]

\* new URL(text) with no base: an absolute URL with an authority, or a TypeError
ParseURL(text) ==
    IF Len(text) < 3 \/ text[1] \notin SchemeTokens \/ text[2] # "//"
    THEN ParseFailure
    ELSE
      LET s1 == SubSeq(text, 3, Len(text))
          hasUser == s1 # <<>> /\ Head(s1) \in UserinfoTokens
          s2 == IF hasUser THEN Tail(s1) ELSE s1
      IN  IF s2 = <<>> \/ Head(s2) \notin HostTokens THEN ParseFailure
          ELSE
            LET s3 == Tail(s2)
                hasPort == s3 # <<>> /\ Head(s3) \in PortTokens
                s4 == IF hasPort THEN Tail(s3) ELSE s3
                p == PathPrefix(s4)
                s5 == SubSeq(s4, Len(p) + 1, Len(s4))
                hasQuery == s5 # <<>> /\ Head(s5) \in QueryTokens
                s6 == IF hasQuery THEN Tail(s5) ELSE s5
                hasHash == s6 # <<>> /\ Head(s6) \in FragmentTokens
                s7 == IF hasHash THEN Tail(s6) ELSE s6
            IN  IF s7 # <<>> \/ (p # <<>> /\ Head(p) # "/") THEN ParseFailure
                ELSE [ok |-> TRUE,
                      protocol |-> ToLower(text[1]),
                      username |-> IF hasUser THEN Head(s1) ELSE "",
                      hostname |-> ToLower(Head(s2)),
                      port |-> IF hasPort THEN Head(s3) ELSE "",
                      pathname |-> Pathname(p),
                      search |-> IF hasQuery THEN Head(s5) ELSE "",
                      hash |-> IF hasHash THEN Head(s6) ELSE ""]

----------------------------------------------------------------------------
(* THREAD_PATH_RE: "/r/", one or more of [A-Za-z0-9_], "/comments/", one or  *)
(* more of [a-z0-9], then either the end or "/" followed by any characters  *)
(* other than "?" and "#", up to the end.                                   *)

\* tokens made only of [a-z0-9]
LowerAlnumTokens == {"r", "test", "movies", "comments", "abc123", "x"}
\* tokens made only of [A-Za-z0-9_]
WordTokens == LowerAlnumTokens \cup {"Ab_1", "ABC", "some_title"}

RECURSIVE RunLength(_, _)
\* how many leading tokens of p are in class
RunLength(p, class) ==
    IF p = <<>> \/ Head(p) \notin class THEN 0
    ELSE 1 + RunLength(Tail(p), class)

\* p starts with the literal tokens lit
StartsWith(p, lit) == Len(p) >= Len(lit) /\ SubSeq(p, 1, Len(lit)) = lit

Drop(p, n) == SubSeq(p, n + 1, Len(p))

THREAD_PATH_RE(path) ==
    /\ StartsWith(path, <<"/", "r", "/">>)
    /\ LET a == Drop(path, 3)
           n == RunLength(a, WordTokens)
           b == Drop(a, n)
       IN  /\ n >= 1
           /\ StartsWith(b, <<"/", "comments", "/">>)
           /\ LET c == Drop(b, 3)
                  m == RunLength(c, LowerAlnumTokens)
                  d == Drop(c, m)
              IN  /\ m >= 1
                  /\ \/ d = <<>>
                     \/ /\ Head(d) = "/"
                        /\ \A i \in DOMAIN d :
                              d[i] \notin QueryTokens \cup FragmentTokens

\* pathname.replace(/\/$/, ''): one trailing slash only
StripTrailingSlashes_Once(p) ==
    IF p # <<>> /\ p[Len(p)] = "/" THEN SubSeq(p, 1, Len(p) - 1) ELSE p

RECURSIVE StripTrailingSlashes(_)
\* pathname.replace(/\/+$/, '')
StripTrailingSlashes(p) ==
    IF p # <<>> /\ p[Len(p)] = "/" THEN StripTrailingSlashes(SubSeq(p, 1, Len(p) - 1))
    ELSE p

----------------------------------------------------------------------------
(* Responses *)

NoHeaders == [h \in {} |-> ""]

jsonResponse(body, status, extraHeaders) ==
    [status |-> status,
     headers |-> extraHeaders @@ [h \in {"Content-Type"} |-> "application/json"],
     body |-> body]

ErrorBody(code, message) == [error |-> code, message |-> message]

----------------------------------------------------------------------------
(* validateRedditUrl *)

ValidateFailed(code, message) ==
    [ok |-> FALSE, response |-> jsonResponse(ErrorBody(code, message), 400, NoHeaders),
     jsonUrl |-> <<>>, hostname |-> "", cleanPath |-> <<>>]

NoResponse == [status |-> 0, headers |-> NoHeaders, body |-> [none |-> TRUE]]

NotValidated == ValidateFailed("", <<>>)

\* validateRedditUrl with the host rule tried before the scheme rule
validateRedditUrl_HostBeforeScheme(targetParam) ==
    LET PathRule(target, cleanPath) ==
            IF ~THREAD_PATH_RE(cleanPath)
            THEN ValidateFailed("invalid_path",
                                <<"URL must be a Reddit thread (/r/.../comments/...)">>)
            ELSE [ok |-> TRUE, response |-> NoResponse,
                  jsonUrl |-> <<"https:", "//", target.hostname>> \o cleanPath \o <<".json">>,
                  hostname |-> target.hostname,
                  cleanPath |-> cleanPath]
        UrlRules(target) ==
            IF ~target.ok
            THEN ValidateFailed("invalid_url", <<"Not a valid URL">>)
            ELSE IF target.hostname \notin ALLOWED_HOSTS
            THEN ValidateFailed("host_not_allowed", <<"Only Reddit URLs are allowed">>)
            ELSE IF target.protocol # "https:"
            THEN ValidateFailed("https_required", <<"Only HTTPS URLs are allowed">>)
            ELSE PathRule(target, StripTrailingSlashes(target.pathname))
    IN  IF ~Truthy(targetParam)
        THEN ValidateFailed("missing_url", <<"Provide a Reddit thread URL as ?url=...">>)
        ELSE UrlRules(ParseURL(targetParam.text))

\* validateRedditUrl deriving the upstream URL without the ".json" suffix
validateRedditUrl_NoSuffix(targetParam) ==
    LET PathRule(target, cleanPath) ==
            IF ~THREAD_PATH_RE(cleanPath)
            THEN ValidateFailed("invalid_path",
                                <<"URL must be a Reddit thread (/r/.../comments/...)">>)
            ELSE [ok |-> TRUE, response |-> NoResponse,
                  jsonUrl |-> <<"https:", "//", target.hostname>> \o cleanPath,
                  hostname |-> target.hostname,
                  cleanPath |-> cleanPath]
        UrlRules(target) ==
            IF ~target.ok
            THEN ValidateFailed("invalid_url", <<"Not a valid URL">>)
            ELSE IF target.protocol # "https:"
            THEN ValidateFailed("https_required", <<"Only HTTPS URLs are allowed">>)
            ELSE IF target.hostname \notin ALLOWED_HOSTS
            THEN ValidateFailed("host_not_allowed", <<"Only Reddit URLs are allowed">>)
            ELSE PathRule(target, StripTrailingSlashes(target.pathname))
    IN  IF ~Truthy(targetParam)
        THEN ValidateFailed("missing_url", <<"Provide a Reddit thread URL as ?url=...">>)
        ELSE UrlRules(ParseURL(targetParam.text))

\* validateRedditUrl testing the parameter against null only (=== null for !)
validateRedditUrl_NullOnly(targetParam) ==
    LET PathRule(target, cleanPath) ==
            IF ~THREAD_PATH_RE(cleanPath)
            THEN ValidateFailed("invalid_path",
                                <<"URL must be a Reddit thread (/r/.../comments/...)">>)
            ELSE [ok |-> TRUE, response |-> NoResponse,
                  jsonUrl |-> <<"https:", "//", target.hostname>> \o cleanPath \o <<".json">>,
                  hostname |-> target.hostname,
                  cleanPath |-> cleanPath]
        UrlRules(target) ==
            IF ~target.ok
            THEN ValidateFailed("invalid_url", <<"Not a valid URL">>)
            ELSE IF target.protocol # "https:"
            THEN ValidateFailed("https_required", <<"Only HTTPS URLs are allowed">>)
            ELSE IF target.hostname \notin ALLOWED_HOSTS
            THEN ValidateFailed("host_not_allowed", <<"Only Reddit URLs are allowed">>)
            ELSE PathRule(target, StripTrailingSlashes(target.pathname))
    IN  IF ~targetParam.present
        THEN ValidateFailed("missing_url", <<"Provide a Reddit thread URL as ?url=...">>)
        ELSE UrlRules(ParseURL(targetParam.text))

\* PathRule and UrlRules are the function's body after the target is parsed
validateRedditUrl(targetParam) ==
    LET PathRule(target, cleanPath) ==
            IF ~THREAD_PATH_RE(cleanPath)
            THEN ValidateFailed("invalid_path",
                                <<"URL must be a Reddit thread (/r/.../comments/...)">>)
            ELSE [ok |-> TRUE, response |-> NoResponse,
                  jsonUrl |-> <<"https:", "//", target.hostname>> \o cleanPath \o <<".json">>,
                  hostname |-> target.hostname,
                  cleanPath |-> cleanPath]
        UrlRules(target) ==
            IF ~target.ok
            THEN ValidateFailed("invalid_url", <<"Not a valid URL">>)
            ELSE IF target.protocol # "https:"
            THEN ValidateFailed("https_required", <<"Only HTTPS URLs are allowed">>)
            ELSE IF target.hostname \notin ALLOWED_HOSTS
            THEN ValidateFailed("host_not_allowed", <<"Only Reddit URLs are allowed">>)
            ELSE PathRule(target, StripTrailingSlashes(target.pathname))
    IN  IF ~Truthy(targetParam)
        THEN ValidateFailed("missing_url", <<"Provide a Reddit thread URL as ?url=...">>)
        ELSE UrlRules(ParseURL(targetParam.text))

----------------------------------------------------------------------------
(* JavaScript values found in the upstream payload *)

Undefined == [t |-> "undefined", s |-> <<>>, n |-> 0]
Str(s) == [t |-> "string", s |-> s, n |-> 0]
Num(n) == [t |-> "number", s |-> <<>>, n |-> n]

\* truthiness of a value: undefined, '' and 0 are falsy
TruthyValue(v) ==
    CASE v.t = "string" -> v.s # <<>>
      [] v.t = "number" -> v.n # 0
      [] OTHER -> FALSE

\* a || b
OrElse(a, b) == IF TruthyValue(a) THEN a ELSE b

\* the text a template literal inserts for a value
TemplateText(v) ==
    CASE v.t = "string" -> v.s
      [] v.t = "number" -> <<v.n>>
      [] OTHER -> <<"undefined">>

----------------------------------------------------------------------------
(* Upstream bodies.  A body is its text (named, not spelled out), its      *)
(* length as body.length reports it, whether JSON.parse accepts it, and    *)
(* what data?.[0]?.data?.children?.[0]?.data finds in the parsed value.    *)

NoPost == [present |-> FALSE, title |-> Undefined, author |-> Undefined,
           subreddit |-> Undefined]

Post(title, author, subreddit) ==
    [present |-> TRUE, title |-> title, author |-> author, subreddit |-> subreddit]

Body(text, length, valid, post) ==
    [text |-> text, length |-> length, valid |-> valid, post |-> post]

NoBody == Body("", 0, FALSE, NoPost)

ThreadJson ==
    Body("THREAD_JSON", 180, TRUE,
         Post(Str(<<"T", "<", "b", ">", "&", "\"">>), Str(<<"testuser">>), Undefined))

NumberTitleJson == Body("NUMBER_TITLE_JSON", 120, TRUE, Post(Num(42), Undefined, Undefined))

CeilingJson == Body("CEILING_JSON", MAX_RESPONSE_BYTES, TRUE, NoPost)

OversizeJson == Body("OVERSIZE_JSON", MAX_RESPONSE_BYTES + 1, TRUE, NoPost)

OversizeGarbage == Body("OVERSIZE_GARBAGE", MAX_RESPONSE_BYTES + 1, FALSE, NoPost)

Garbage == Body("this is not json{{{", 19, FALSE, NoPost)

\* a payload whose title, author and subreddit hold markup characters and
\* text that reads as an entity
MarkupJson ==
    Body("MARKUP_JSON", 200, TRUE,
         Post(Str(<<"<", "script", ">", "&", "lt;">>), Str(<<"a", "\"", "&", "amp;">>),
              Str(<<"x", ">", "<">>)))

\* the bytes of ThreadJson behind a UTF-8 byte order mark (taken as text
\* undecoded, they do not parse)
BomThreadJson == Body("BOM_THREAD_JSON", ThreadJson.length + 3, FALSE, NoPost)

\* the bodies an upstream sends: for all but the last, the bytes are the
\* UTF-8 encoding of the text, and the record describes both
Bodies == {ThreadJson, NumberTitleJson, MarkupJson, CeilingJson, OversizeJson,
           OversizeGarbage, Garbage, BomThreadJson}

\* response.text(): the bytes decoded as UTF-8, a leading byte order mark
\* dropped
Utf8Decode(body) == IF body = BomThreadJson THEN ThreadJson ELSE body

\* JSON.parse(body): the parsed data, or a SyntaxError
JSONParse(body) == [ok |-> body.valid, post |-> body.post]

----------------------------------------------------------------------------
(* Headers *)

HeaderGet(headers, name) ==
    IF name \in DOMAIN headers THEN [present |-> TRUE, value |-> headers[name]]
    ELSE [present |-> FALSE, value |-> ""]

\* truthiness of headers.get(name): null and '' are falsy
TruthyHeader(h) == h.present /\ h.value # ""

\* ct.includes('application/json'), on the content types the upstream sends
IncludesJson(ct) == ct \in {"application/json", "application/json; charset=UTF-8"}

RetryAfterValues == {"", "30"}
ContentTypes == {"application/json; charset=UTF-8", "Application/JSON; charset=UTF-8",
                 "text/html"}

UpstreamHeaders ==
    { ra @@ ct :
        ra \in {NoHeaders} \cup {[h \in {"Retry-After"} |-> v] : v \in RetryAfterValues},
        ct \in {NoHeaders} \cup {[h \in {"content-type"} |-> v] : v \in ContentTypes} }

Statuses == {200, 299, 300, 403, 429, 500}

\* Response.ok
Ok(status) == status >= 200 /\ status <= 299

----------------------------------------------------------------------------
(* Rejections of fetch() *)

AbortError == [class |-> "DOMException", name |-> "AbortError"]

\* what fetch() rejects with when the transport fails (DNS, refused, TLS, reset)
TransportErrors ==
    { [class |-> "TypeError", name |-> "TypeError"],
      [class |-> "Error", name |-> "Error"],
      [class |-> "Error", name |-> "AbortError"],
      [class |-> "DOMException", name |-> "NetworkError"] }

NoError == [class |-> "", name |-> ""]

----------------------------------------------------------------------------
(* fetchRedditJson, between its suspension points *)

Failed(response) == [ok |-> FALSE, response |-> response]
Passed == [ok |-> TRUE, response |-> NoResponse]

\* the request fetch() sends upstream for a request of the worker
UpstreamRequest_InboundMethod(jsonUrl, request) ==
    [method |-> request.method, url |-> jsonUrl,
     headers |-> [h \in {"User-Agent"} |-> UPSTREAM_UA]]

\* the upstream request made for the url parameter as the client gave it
UpstreamRequest_TargetAsGiven(jsonUrl, request) ==
    [method |-> "GET", url |-> request.url.text,
     headers |-> [h \in {"User-Agent"} |-> UPSTREAM_UA]]

UpstreamRequest(jsonUrl, request) ==
    [method |-> "GET", url |-> jsonUrl,
     headers |-> [h \in {"User-Agent"} |-> UPSTREAM_UA]]

\* the catch block: any DOMException counts as the timeout
ClassifyRejection_AnyDOMException(err) ==
    LET isTimeout == err.class = "DOMException" IN
    IF isTimeout
    THEN jsonResponse(ErrorBody("upstream_timeout", <<"Reddit took too long to respond">>),
                      504, NoHeaders)
    ELSE jsonResponse(ErrorBody("upstream_unreachable", <<"Could not reach Reddit">>),
                      502, NoHeaders)

\* the catch block around fetch()
ClassifyRejection(err) ==
    LET isTimeout == err.class = "DOMException" /\ err.name = "AbortError" IN
    IF isTimeout
    THEN jsonResponse(ErrorBody("upstream_timeout", <<"Reddit took too long to respond">>),
                      504, NoHeaders)
    ELSE jsonResponse(ErrorBody("upstream_unreachable", <<"Could not reach Reddit">>),
                      502, NoHeaders)

\* the status mapping answering an upstream failure with the upstream's own status
MapStatus_UpstreamStatus(status, headers) ==
    IF status = 429
    THEN LET retryAfter == HeaderGet(headers, "Retry-After") IN
         Failed(jsonResponse(
             ErrorBody("rate_limited", <<"Reddit is rate-limiting requests">>), 429,
             IF TruthyHeader(retryAfter)
             THEN [h \in {"Retry-After"} |-> retryAfter.value] ELSE NoHeaders))
    ELSE IF status = 403
    THEN Failed(jsonResponse(
             ErrorBody("upstream_forbidden", <<"Reddit blocked this request">>), 502, NoHeaders))
    ELSE IF ~Ok(status)
    THEN Failed(jsonResponse(
             ErrorBody("upstream_error", <<"Reddit returned HTTP ", status>>), status, NoHeaders))
    ELSE Passed

\* the status mapping without its 403 branch
MapStatus_No403(status, headers) ==
    IF status = 429
    THEN LET retryAfter == HeaderGet(headers, "Retry-After") IN
         Failed(jsonResponse(
             ErrorBody("rate_limited", <<"Reddit is rate-limiting requests">>), 429,
             IF TruthyHeader(retryAfter)
             THEN [h \in {"Retry-After"} |-> retryAfter.value] ELSE NoHeaders))
    ELSE IF ~Ok(status)
    THEN Failed(jsonResponse(
             ErrorBody("upstream_error", <<"Reddit returned HTTP ", status>>), 502, NoHeaders))
    ELSE Passed

\* the status mapping with a default Retry-After when the upstream gave none
MapStatus_DefaultRetryAfter(status, headers) ==
    IF status = 429
    THEN LET retryAfter == HeaderGet(headers, "Retry-After") IN
         Failed(jsonResponse(
             ErrorBody("rate_limited", <<"Reddit is rate-limiting requests">>), 429,
             [h \in {"Retry-After"} |->
                 IF TruthyHeader(retryAfter) THEN retryAfter.value ELSE "60"]))
    ELSE IF status = 403
    THEN Failed(jsonResponse(
             ErrorBody("upstream_forbidden", <<"Reddit blocked this request">>), 502, NoHeaders))
    ELSE IF ~Ok(status)
    THEN Failed(jsonResponse(
             ErrorBody("upstream_error", <<"Reddit returned HTTP ", status>>), 502, NoHeaders))
    ELSE Passed

\* "Map non-200 statuses"
MapStatus(status, headers) ==
    IF status = 429
    THEN LET retryAfter == HeaderGet(headers, "Retry-After") IN
         Failed(jsonResponse(
             ErrorBody("rate_limited", <<"Reddit is rate-limiting requests">>), 429,
             IF TruthyHeader(retryAfter)
             THEN [h \in {"Retry-After"} |-> retryAfter.value] ELSE NoHeaders))
    ELSE IF status = 403
    THEN Failed(jsonResponse(
             ErrorBody("upstream_forbidden", <<"Reddit blocked this request">>), 502, NoHeaders))
    ELSE IF ~Ok(status)
    THEN Failed(jsonResponse(
             ErrorBody("upstream_error", <<"Reddit returned HTTP ", status>>), 502, NoHeaders))
    ELSE Passed

\* "Validate content-type"
CheckContentType(headers) ==
    LET got == HeaderGet(headers, "content-type")
        ct == IF TruthyHeader(got) THEN got.value ELSE ""
    IN  IF ~IncludesJson(ct)
        THEN Failed(jsonResponse(
                 ErrorBody("upstream_parse_error",
                           <<"Expected JSON, got ", IF ct # "" THEN ct ELSE "unknown">>),
                 502, NoHeaders))
        ELSE Passed

\* the content type checked before the status is mapped
ResponseReceived_ContentTypeFirst(status, headers) ==
    LET checked == CheckContentType(headers) IN
    IF ~checked.ok THEN checked ELSE MapStatus(status, headers)

\* what fetchRedditJson does with the response fetch() resolved with
ResponseReceived(status, headers) ==
    LET mapped == MapStatus(status, headers) IN
    IF ~mapped.ok THEN mapped ELSE CheckContentType(headers)

\* the size guard rejecting from the ceiling on (>= for >)
BodyReceived_AtCeiling(body) ==
    IF body.length >= MAX_RESPONSE_BYTES
    THEN Failed(jsonResponse(
             ErrorBody("response_too_large", <<"Response exceeded 5 MB limit">>),
             502, NoHeaders))
    ELSE IF ~JSONParse(body).ok
    THEN Failed(jsonResponse(
             ErrorBody("upstream_parse_error", <<"Reddit returned invalid JSON">>),
             502, NoHeaders))
    ELSE Passed

\* the size guard alone, without "Validate JSON"
BodyReceived_NoParse(body) ==
    IF body.length > MAX_RESPONSE_BYTES
    THEN Failed(jsonResponse(
             ErrorBody("response_too_large", <<"Response exceeded 5 MB limit">>),
             502, NoHeaders))
    ELSE Passed

\* "Read body with size guard" and "Validate JSON", once text() has resolved
BodyReceived(body) ==
    IF body.length > MAX_RESPONSE_BYTES
    THEN Failed(jsonResponse(
             ErrorBody("response_too_large", <<"Response exceeded 5 MB limit">>),
             502, NoHeaders))
    ELSE IF ~JSONParse(body).ok
    THEN Failed(jsonResponse(
             ErrorBody("upstream_parse_error", <<"Reddit returned invalid JSON">>),
             502, NoHeaders))
    ELSE Passed

----------------------------------------------------------------------------
(* caches.default *)

(* The cache is a function from the upstream URLs that have an unexpired    *)
(* entry to the body stored for them.                                      *)

EmptyCache == [k \in {} |-> NoBody]

\* cache.match that finds the entry but hands over an empty body
CacheLookup_EmptyBody(c, jsonUrl) ==
    [present |-> jsonUrl \in DOMAIN c, body |-> NoBody]

\* cache.match that never finds an entry
CacheLookup_Miss(c, jsonUrl) == [present |-> FALSE, body |-> NoBody]

\* cache.match(new Request(jsonUrl))
CacheLookup(c, jsonUrl) ==
    IF jsonUrl \in DOMAIN c THEN [present |-> TRUE, body |-> c[jsonUrl]]
    ELSE [present |-> FALSE, body |-> NoBody]

\* cache.put that stores nothing
CacheStore_Dropped(c, jsonUrl, body) == c

\* cache.put that leaves an entry that is already there as it is
CacheStore_KeepFirst(c, jsonUrl, body) ==
    IF jsonUrl \in DOMAIN c THEN c
    ELSE [k \in {jsonUrl} \cup DOMAIN c |-> IF k = jsonUrl THEN body ELSE c[k]]

\* cache.put that evicts the entries of the other upstream URLs
CacheStore_Evicting(c, jsonUrl, body) == [k \in {jsonUrl} |-> body]

\* cache.put writing the body over every entry there is
CacheStore_Overwriting(c, jsonUrl, body) == [k \in DOMAIN c \cup {jsonUrl} |-> body]

\* cache.put(cacheKey, response.clone())
CacheStore(c, jsonUrl, body) ==
    [k \in DOMAIN c \cup {jsonUrl} |-> IF k = jsonUrl THEN body ELSE c[k]]

\* one more write of jsonUrl, by request r, in its window, which the first
\* write opens
RecordWrite(w, jsonUrl, r) ==
    [k \in DOMAIN w \cup {jsonUrl} |->
        IF k = jsonUrl THEN (IF k \in DOMAIN w THEN Append(w[k], r) ELSE <<r>>) ELSE w[k]]

\* the entry of jsonUrl reaches its max-age and is gone
CacheExpire(c, jsonUrl) == [k \in DOMAIN c \ {jsonUrl} |-> c[k]]

----------------------------------------------------------------------------
(* The two handlers' own responses *)

htmlResponse(html, status) ==
    [status |-> status,
     headers |-> [h \in {"Content-Type"} |-> "text/html; charset=utf-8"],
     body |-> html]

RECURSIVE ReplaceAll(_, _, _)
\* s.replace(/ch/g, rep) on a sequence of characters
ReplaceAll(s, ch, rep) ==
    IF s = <<>> THEN <<>>
    ELSE (IF Head(s) = ch THEN rep ELSE <<Head(s)>>) \o ReplaceAll(Tail(s), ch, rep)

\* escapeHtml without its last replacement, that of the double quote
escapeHtml_NoQuote(s) ==
    ReplaceAll(
      ReplaceAll(
        ReplaceAll(s, "&", <<"&", "amp;">>),
        "<", <<"&", "lt;">>),
      ">", <<"&", "gt;">>)

\* escapeHtml with the ampersand replaced last instead of first
escapeHtml_AmpersandLast(s) ==
    ReplaceAll(
      ReplaceAll(
        ReplaceAll(
          ReplaceAll(s, "<", <<"&", "lt;">>),
          ">", <<"&", "gt;">>),
        "\"", <<"&", "quot;">>),
      "&", <<"&", "amp;">>)

escapeHtml(s) ==
    ReplaceAll(
      ReplaceAll(
        ReplaceAll(
          ReplaceAll(s, "&", <<"&", "amp;">>),
          "<", <<"&", "lt;">>),
        ">", <<"&", "gt;">>),
      "\"", <<"&", "quot;">>)

OgTags == {"og:title", "og:description", "og:site_name", "og:type", "og:url",
           "twitter:card"}

\* the document buildOgHtml renders: its fixed meta tags and its three
\* escaped dynamic values
buildOgHtml(title, description, canonicalUrl) ==
    [tags |-> OgTags,
     title |-> escapeHtml(title),
     description |-> escapeHtml(description),
     url |-> escapeHtml(canonicalUrl)]

\* encodeURIComponent on one token
EncodeToken(tok) ==
    CASE tok = "https:" -> "https%3A"
      [] tok = "HTTPS:" -> "HTTPS%3A"
      [] tok = "http:" -> "http%3A"
      [] tok = "//" -> "%2F%2F"
      [] tok = "/" -> "%2F"
      [] tok = "user:pw@" -> "user%3Apw%40"
      [] tok = ":8443" -> "%3A8443"
      [] tok = "?limit=5" -> "%3Flimit%3D5"
      [] tok = "#top" -> "%23top"
      [] tok = " " -> "%20"
      [] OTHER -> tok

encodeURIComponent(text) == [i \in DOMAIN text |-> EncodeToken(text[i])]

FallbackTitle == <<"Reddit Thread - R->MD">>
FallbackDescription == <<"Convert Reddit threads to clean markdown">>

Returned(response) == [kind |-> "response", response |-> response]
Thrown == [kind |-> "thrown", response |-> NoResponse]
NoOutcome == [kind |-> "none", response |-> NoResponse]

\* the canonical URL with the target inserted as it is, not percent-encoded
CanonicalUrl_Unencoded(redditUrl) ==
    <<"https://peirce.net/reddit?url=">> \o redditUrl.text

\* handleOgPreview's canonicalUrl
CanonicalUrl(redditUrl) ==
    <<"https://peirce.net/reddit?url=">> \o encodeURIComponent(redditUrl.text)

FallbackPreview(redditUrl) ==
    Returned(htmlResponse(
        buildOgHtml(FallbackTitle, FallbackDescription, CanonicalUrl(redditUrl)), 200))

\* handleOgPreview from "Extract thread metadata" on; escapeHtml calls
\* title.replace, which a title that is not a string does not have
PreviewOf(redditUrl, post) ==
    IF ~post.present \/ ~TruthyValue(post.title) THEN FallbackPreview(redditUrl)
    ELSE
      LET title == post.title
          author == OrElse(post.author, Str(<<"unknown">>))
          subreddit == OrElse(post.subreddit, Str(<<"reddit">>))
          description == <<"u/">> \o TemplateText(author) \o <<" in r/">>
                             \o TemplateText(subreddit) \o <<" - converted to markdown">>
      IN  IF title.t # "string" THEN Thrown
          ELSE Returned(htmlResponse(
                   buildOgHtml(title.s, description, CanonicalUrl(redditUrl)), 200))

\* handleRedditProxy's 200
ProxiedJson(body) ==
    [status |-> 200,
     headers |-> [h \in {"Content-Type", "Cache-Control"} |->
                     IF h = "Content-Type" THEN <<"application/json">>
                     ELSE <<"public, max-age=", CACHE_TTL_SECONDS>>],
     body |-> body]

\* what the handler does with fetchRedditJson's { ok: true, body, data }
OnFetched(request, body) ==
    IF ~JSONParse(body).ok THEN Thrown
    ELSE IF request.handler = "api" THEN Returned(ProxiedJson(body))
    ELSE PreviewOf(request.url, JSONParse(body).post)

\* what the handler does with fetchRedditJson's { ok: false, response }
OnFailed(request, response) ==
    IF request.handler = "api" THEN Returned(response)
    ELSE FallbackPreview(request.url)

\* the handler up to its first await, ignoring the validator's verdict
Entered_Unvalidated(handler, method, url) ==
    IF handler = "api" /\ method # "GET"
    THEN [pc |-> "done", val |-> NotValidated,
          out |-> Returned(jsonResponse([error |-> "method_not_allowed"], 405, NoHeaders))]
    ELSE [pc |-> "match", val |-> validateRedditUrl(url), out |-> NoOutcome]

\* the handlers with the url parameter validated before the method is looked at
Entered_ValidationFirst(handler, method, url) ==
    LET Answer(validated) ==
            IF ~validated.ok
            THEN [pc |-> "done", val |-> validated,
                  out |-> IF handler = "api" THEN Returned(validated.response)
                          ELSE FallbackPreview(url)]
            ELSE IF handler = "api" /\ method # "GET"
            THEN [pc |-> "done", val |-> validated,
                  out |-> Returned(jsonResponse([error |-> "method_not_allowed"], 405, NoHeaders))]
            ELSE [pc |-> "match", val |-> validated, out |-> NoOutcome]
    IN  Answer(validateRedditUrl(url))

\* handleRedditProxy / handleOgPreview up to the first await: the method
\* check (API only), the validation, and the answer to an invalid target
Entered(handler, method, url) ==
    LET Answer(validated) ==
            IF ~validated.ok
            THEN [pc |-> "done", val |-> validated,
                  out |-> IF handler = "api" THEN Returned(validated.response)
                          ELSE FallbackPreview(url)]
            ELSE [pc |-> "match", val |-> validated, out |-> NoOutcome]
    IN  IF handler = "api" /\ method # "GET"
        THEN [pc |-> "done", val |-> NotValidated,
              out |-> Returned(jsonResponse([error |-> "method_not_allowed"], 405, NoHeaders))]
        ELSE Answer(validateRedditUrl(url))

----------------------------------------------------------------------------
(* The router.  A pathname is a sequence of pieces, as the path of a url    *)
(* parameter is; the letters "reddit" after the first "/" are always a      *)
(* piece of their own, so that "/redditor" is <<"/", "reddit", "or">>.  A   *)
(* User-Agent is a sequence of pieces in which the name of a crawler, in    *)
(* whatever case, is always a piece of its own.                             *)

BOT_UA_PATTERNS ==
    {"Slackbot", "Discordbot", "Twitterbot", "facebookexternalhit",
     "LinkedInBot", "AppleBot", "WhatsApp", "TelegramBot"}

\* isCrawler lower-casing the User-Agent but not the patterns
isCrawler_PatternsAsListed(ua) ==
    \E i \in 1..Len(ua) : ToLower(ua[i]) \in BOT_UA_PATTERNS

\* isCrawler comparing the User-Agent as sent, without lower-casing it
isCrawler_CaseSensitive(ua) ==
    \E i \in 1..Len(ua) : ua[i] \in BOT_UA_PATTERNS

\* lower.includes(p.toLowerCase()) for some pattern p
isCrawler(ua) ==
    \E i \in 1..Len(ua) : ToLower(ua[i]) \in {ToLower(p) : p \in BOT_UA_PATTERNS}

WORKER_HOST == "peirce.net"
PAGES_HOST == "r2md.pages.dev"
PREFIX == <<"/", "reddit">>
API_ROUTE == <<"/", "reddit", "/", "api", "/", "fetch">>

\* an inbound request: its pathname, its method, its url query parameter
\* and its User-Agent header
RawRequest(pathname, method, url, ua) ==
    [host |-> WORKER_HOST, pathname |-> pathname, method |-> method, url |-> url, ua |-> ua]

\* a request the worker sends on: where to, and what of the inbound request
\* it carries (fetch(request) carries the body, handlePagesProxy does not)
Forward(host, pathname, url, method, hostHeader, ua, body) ==
    [host |-> host, pathname |-> pathname, url |-> url, method |-> method,
     hostHeader |-> hostHeader, ua |-> ua, body |-> body]

NoRaw == RawRequest(<<>>, "", Absent, Absent)
NoForward == Forward("", <<>>, Absent, "", "", Absent, FALSE)

\* fetch(request): the inbound request itself
Passthrough(request) ==
    Forward(request.host, request.pathname, request.url, request.method,
            request.host, request.ua, TRUE)

\* url.pathname.replace(/^\/reddit\/?/, '/')
StripPrefix(pathname) ==
    IF StartsWith(pathname, PREFIX \o <<"/">>) THEN <<"/">> \o Drop(pathname, 3)
    ELSE IF StartsWith(pathname, PREFIX) THEN <<"/">> \o Drop(pathname, 2)
    ELSE pathname

\* new URL(strippedPath, 'https://r2md.pages.dev'): a reference that begins
\* with two slashes names its own host
PagesUrl(strippedPath) ==
    IF StartsWith(strippedPath, <<"/", "/">>) /\ Len(strippedPath) >= 3
    THEN [host |-> strippedPath[3],
          pathname |-> IF Len(strippedPath) = 3 THEN <<"/">> ELSE Drop(strippedPath, 3)]
    ELSE [host |-> PAGES_HOST, pathname |-> strippedPath]

\* the request handlePagesProxy sends: the stripped path on the Pages
\* origin, the query string, method and headers of the inbound request, the
\* Host header set
PagesRequest(request) ==
    LET To(pagesUrl) ==
            Forward(pagesUrl.host, pagesUrl.pathname, request.url, request.method,
                    PAGES_HOST, request.ua, FALSE)
    IN  To(PagesUrl(StripPrefix(request.pathname)))

\* request.headers.get('User-Agent') || ''
UserAgentOf(request) == IF request.ua.present THEN request.ua.text ELSE <<>>

\* the entrypoint with the crawler test made before the API route
Route_CrawlerFirst(request) ==
    IF ~StartsWith(request.pathname, PREFIX) THEN "passthrough"
    ELSE IF Truthy(request.url) /\ isCrawler(UserAgentOf(request)) THEN "preview"
    ELSE IF request.pathname = API_ROUTE THEN "api"
    ELSE "pages"

\* the entrypoint without its first branch
Route_NoPassthrough(request) ==
    IF request.pathname = API_ROUTE THEN "api"
    ELSE IF Truthy(request.url) /\ isCrawler(UserAgentOf(request)) THEN "preview"
    ELSE "pages"

\* the branch of the entrypoint that handles a request
Route(request) ==
    IF ~StartsWith(request.pathname, PREFIX) THEN "passthrough"
    ELSE IF request.pathname = API_ROUTE THEN "api"
    ELSE IF Truthy(request.url) /\ isCrawler(UserAgentOf(request)) THEN "preview"
    ELSE "pages"

InitRouterIdle ==
    /\ raw = NoRaw
    /\ route = "none"
    /\ fwd = NoForward

InitDetectorIdle ==
    /\ agent = Absent
    /\ crawler = "untested"

\* a response body as the client's response.json() finds it: whether it
\* parses, and of the parsed value whether it is an array, what
\* data[0]?.data?.children?.[0]?.data is, whether data[1] is a listing, and
\* the children of data[1]
Payload(json, array, post, second, comments) ==
    [json |-> json, array |-> array, post |-> post, second |-> second,
     comments |-> comments]

ClientPost(title, author, selftext) ==
    [present |-> TRUE, title |-> title, author |-> author, selftext |-> selftext]

NoClientPost ==
    [present |-> FALSE, title |-> Undefined, author |-> Undefined, selftext |-> Undefined]

\* `let data: any` before anything is assigned to it
NoData == Payload(FALSE, FALSE, NoClientPost, FALSE, <<>>)

\* the direct attempt: not settled, rejected, or resolved with a status and
\* then a body that is not read, JSON or not JSON
DirectAttempt(kind, status, body) == [kind |-> kind, status |-> status, body |-> body]

NoDirect == DirectAttempt("none", 0, "unread")

\* RedditForm as mounted: useState(false), useState(''), no conversion yet
InitClientIdle ==
    /\ formUrl = <<>>
    /\ cpc = "idle"
    /\ loading = FALSE
    /\ error = <<>>
    /\ data = NoData
    /\ calls = <<>>
    /\ direct = NoDirect
    /\ submits = <<>>

----------------------------------------------------------------------------
(* The worker: requests are taken one at a time *)

Requests == {1}

Methods == {"GET", "POST"}

DirtyThread ==
    Param(UrlText("HTTPS:", "user:pw@", "WWW.Reddit.com", ":8443",
                  <<"/", "r", "/", "test", "/", "comments", "/", "abc123", "/", "some_title",
                    "/", "/">>,
                  "?limit=5", "#top"))

OldThread ==
    Param(UrlText("https:", "", "old.reddit.com", "",
                  <<"/", "r", "/", "test", "/", "comments", "/", "abc123">>, "", ""))

WorkerTargets ==
    { Absent, Param(<<>>), Param(<<"not-a-url">>),
      Param(UrlText("http:", "", "evil.com", "", <<"/", "r", "/", "movies">>, "", "")),
      Param(UrlText("https:", "", "www.reddit.com.evil.com", "", <<"/">>, "", "")),
      Param(UrlText("https:", "", "www.reddit.com", "", <<"/", "r", "/", "movies">>, "", "")),
      DirtyThread, OldThread }

Request(handler, method, url) == [handler |-> handler, method |-> method, url |-> url]

\* the requests the router hands to the two handlers: handleRedditProxy gets
\* any method and any url parameter, handleOgPreview only a non-empty url
\* parameter (of a request of any method)
WorkerRequests ==
    { Request("api", m, u) : m \in Methods, u \in WorkerTargets }
    \cup { Request("preview", "GET", u) : u \in {t \in WorkerTargets : Truthy(t)} }
    \cup { Request("preview", "POST", DirtyThread) }

NoRequest == [handler |-> "none", method |-> "", url |-> Absent]
NoUpstream == [kind |-> "none", status |-> 0, headers |-> NoHeaders, error |-> NoError,
               body |-> NoBody, wire |-> NoBody]
ZeroIO == [match |-> 0, fetch |-> 0, text |-> 0, put |-> 0]
NoServed == [present |-> FALSE, body |-> NoBody, fetches |-> 0]

NoPuts == [k \in {} |-> <<>>]

InitWorkerIdle ==
    /\ pc = [r \in Requests |-> "idle"]
    /\ inp = [r \in Requests |-> NoRequest]
    /\ val = [r \in Requests |-> NotValidated]
    /\ timer = [r \in Requests |-> "none"]
    /\ sent = [r \in Requests |-> <<>>]
    /\ up = [r \in Requests |-> NoUpstream]
    /\ out = [r \in Requests |-> NoOutcome]
    /\ io = [r \in Requests |-> ZeroIO]
    /\ prior = [r \in Requests |-> NoServed]
    /\ cache = EmptyCache
    /\ served = EmptyCache
    /\ puts = NoPuts


Init ==
    /\ InitWorkerIdle
    /\ vpc = "off"
    /\ vtarget = Absent
    /\ vfirst = NotValidated
    /\ vagain = NotValidated
    /\ InitRouterIdle
    /\ InitDetectorIdle
    /\ InitClientIdle

\* the upstream URL a request is about
KeyOf(r) == val[r].jsonUrl

\* the handler of request r ends with outcome o; a 200 of the API route is
\* remembered, with the fetches it took, until the entry of its upstream URL
\* reaches its max-age
Finish(r, o) ==
    /\ pc' = [pc EXCEPT ![r] = "done"]
    /\ out' = [out EXCEPT ![r] = o]
    /\ served' =
         IF /\ inp[r].handler = "api"
            /\ o.kind = "response"
            /\ o.response.status = 200
         THEN [k \in DOMAIN served \cup {KeyOf(r)} |->
                 IF k = KeyOf(r)
                 THEN [present |-> TRUE, body |-> o.response.body, fetches |-> io[r].fetch]
                 ELSE served[k]]
         ELSE served

\* The router hands a request to handleRedditProxy (handler "api", any
\* method, any url parameter) or to handleOgPreview (handler "preview",
\* only with a non-empty url parameter); the handler runs to its first await.
Enter(r, request) ==
    /\ \E e \in {Entered(request.handler, request.method, request.url)} :
       /\ inp' = [inp EXCEPT ![r] = request]
       /\ val' = [val EXCEPT ![r] = e.val]
       /\ pc' = [pc EXCEPT ![r] = e.pc]
       /\ out' = [out EXCEPT ![r] = e.out]
    /\ timer' = [timer EXCEPT ![r] = "none"]
    /\ sent' = [sent EXCEPT ![r] = <<>>]
    /\ up' = [up EXCEPT ![r] = NoUpstream]
    /\ io' = [io EXCEPT ![r] = ZeroIO]
    /\ prior' = [prior EXCEPT ![r] = NoServed]
    /\ UNCHANGED <<cache, served, puts>>
    /\ UNCHANGED harnessVars

\* a request arrives while no other is being handled
Receive(r, request) ==
    /\ \A q \in Requests : pc[q] \in {"idle", "done"}
    /\ Enter(r, request)
    /\ UNCHANGED routerVars

\* a request arrives, whatever the other requests are doing
Arrive(r, request) ==
    /\ pc[r] = "idle"
    /\ Enter(r, request)
    /\ UNCHANGED routerVars

\* await cache.match(cacheKey) answers with the stored entry: the fetcher
\* returns it, and the handler builds its response
CacheHit(r) ==
    /\ pc[r] = "match"
    /\ CacheLookup(cache, KeyOf(r)).present
    /\ io' = [io EXCEPT ![r].match = @ + 1]
    /\ prior' = [prior EXCEPT ![r] =
                    IF KeyOf(r) \in DOMAIN served THEN served[KeyOf(r)] ELSE NoServed]
    /\ Finish(r, OnFetched(inp[r], CacheLookup(cache, KeyOf(r)).body))
    /\ UNCHANGED <<inp, val, timer, sent, up, cache, puts>>
    /\ UNCHANGED harnessVars
    /\ UNCHANGED routerVars

\* await cache.match(cacheKey) answers undefined: the deadline timer is set
\* and fetch() is called
CacheMiss(r) ==
    /\ pc[r] = "match"
    /\ ~CacheLookup(cache, KeyOf(r)).present
    /\ io' = [io EXCEPT ![r].match = @ + 1, ![r].fetch = @ + 1]
    /\ prior' = [prior EXCEPT ![r] =
                    IF KeyOf(r) \in DOMAIN served THEN served[KeyOf(r)] ELSE NoServed]
    /\ timer' = [timer EXCEPT ![r] = "pending"]
    /\ sent' = [sent EXCEPT ![r] = Append(@, UpstreamRequest(KeyOf(r), inp[r]))]
    /\ pc' = [pc EXCEPT ![r] = "fetch"]
    /\ UNCHANGED <<inp, val, up, out, cache, served, puts>>
    /\ UNCHANGED harnessVars
    /\ UNCHANGED routerVars

\* a fetcher that clears the timer in the catch block only: it is left
\* running when fetch() resolves
FetchResolve_TimerLeft(r, status, headers) ==
    /\ pc[r] = "fetch"
    /\ up' = [up EXCEPT ![r] = [kind |-> "response", status |-> status,
                                headers |-> headers, error |-> NoError, body |-> NoBody,
                                wire |-> NoBody]]
    /\ LET res == ResponseReceived(status, headers) IN
       IF res.ok
       THEN /\ pc' = [pc EXCEPT ![r] = "text"]
            /\ UNCHANGED <<out, served>>
       ELSE Finish(r, OnFailed(inp[r], res.response))
    /\ UNCHANGED <<inp, val, timer, sent, io, prior, cache, puts>>
    /\ UNCHANGED harnessVars
    /\ UNCHANGED routerVars

\* fetch() resolves with the upstream's status and headers: the timer is
\* cleared, the status is mapped and the content type checked
FetchResolve(r, status, headers) ==
    /\ pc[r] = "fetch"
    /\ timer' = [timer EXCEPT ![r] = "cleared"]
    /\ up' = [up EXCEPT ![r] = [kind |-> "response", status |-> status,
                                headers |-> headers, error |-> NoError, body |-> NoBody,
                                wire |-> NoBody]]
    /\ LET res == ResponseReceived(status, headers) IN
       IF res.ok
       THEN /\ pc' = [pc EXCEPT ![r] = "text"]
            /\ UNCHANGED <<out, served>>
       ELSE Finish(r, OnFailed(inp[r], res.response))
    /\ UNCHANGED <<inp, val, sent, io, prior, cache, puts>>
    /\ UNCHANGED harnessVars
    /\ UNCHANGED routerVars

\* a fetcher that calls fetch() once more when the first call rejected
FetchReject_Retry(r, err) ==
    /\ pc[r] = "fetch"
    /\ IF io[r].fetch < 2
       THEN /\ timer' = [timer EXCEPT ![r] = "pending"]
            /\ io' = [io EXCEPT ![r].fetch = @ + 1]
            /\ sent' = [sent EXCEPT ![r] = Append(@, UpstreamRequest(KeyOf(r), inp[r]))]
            /\ UNCHANGED <<pc, up, out, served>>
       ELSE /\ timer' = [timer EXCEPT ![r] = "cleared"]
            /\ up' = [up EXCEPT ![r] = [kind |-> "rejected", status |-> 0,
                                        headers |-> NoHeaders, error |-> err,
                                        body |-> NoBody, wire |-> NoBody]]
            /\ Finish(r, OnFailed(inp[r], ClassifyRejection(err)))
            /\ UNCHANGED <<sent, io>>
    /\ UNCHANGED <<inp, val, prior, cache, puts>>
    /\ UNCHANGED harnessVars
    /\ UNCHANGED routerVars

\* fetch() rejects because the transport failed: the timer is cleared and
\* the catch block answers
FetchReject(r, err) ==
    /\ pc[r] = "fetch"
    /\ timer' = [timer EXCEPT ![r] = "cleared"]
    /\ up' = [up EXCEPT ![r] = [kind |-> "rejected", status |-> 0,
                                headers |-> NoHeaders, error |-> err, body |-> NoBody,
                                wire |-> NoBody]]
    /\ Finish(r, OnFailed(inp[r], ClassifyRejection(err)))
    /\ UNCHANGED <<inp, val, sent, io, prior, cache, puts>>
    /\ UNCHANGED harnessVars
    /\ UNCHANGED routerVars

\* the deadline elapses while its timer is pending: controller.abort()
\* makes fetch() reject with an AbortError, and the catch block answers
Deadline(r) ==
    /\ pc[r] = "fetch"
    /\ timer[r] = "pending"
    /\ timer' = [timer EXCEPT ![r] = "fired"]
    /\ up' = [up EXCEPT ![r] = [kind |-> "rejected", status |-> 0,
                                headers |-> NoHeaders, error |-> AbortError, body |-> NoBody,
                                wire |-> NoBody]]
    /\ Finish(r, OnFailed(inp[r], ClassifyRejection(AbortError)))
    /\ UNCHANGED <<inp, val, sent, io, prior, cache, puts>>
    /\ UNCHANGED harnessVars
    /\ UNCHANGED routerVars

\* await upstream.text() resolves with the whole body: size guard, then
\* JSON.parse
TextResolve(r, body) ==
    /\ pc[r] = "text"
    /\ io' = [io EXCEPT ![r].text = @ + 1]
    /\ up' = [up EXCEPT ![r].body = Utf8Decode(body), ![r].wire = body]
    /\ LET res == BodyReceived(Utf8Decode(body)) IN
       IF res.ok
       THEN /\ pc' = [pc EXCEPT ![r] = "put"]
            /\ UNCHANGED <<out, served>>
       ELSE Finish(r, OnFailed(inp[r], res.response))
    /\ UNCHANGED <<inp, val, timer, sent, prior, cache, puts>>
    /\ UNCHANGED harnessVars
    /\ UNCHANGED routerVars

\* await upstream.text() rejects (the connection breaks while the body is
\* read): nothing catches it, the handler throws
TextReject(r) ==
    /\ pc[r] = "text"
    /\ io' = [io EXCEPT ![r].text = @ + 1]
    /\ up' = [up EXCEPT ![r].kind = "broken"]
    /\ Finish(r, Thrown)
    /\ UNCHANGED <<inp, val, timer, sent, prior, cache, puts>>
    /\ UNCHANGED harnessVars
    /\ UNCHANGED routerVars

\* await cache.put(cacheKey, response.clone()) completes: the fetcher
\* returns the body it read, and the handler builds its response
CachePut(r) ==
    /\ pc[r] = "put"
    /\ io' = [io EXCEPT ![r].put = @ + 1]
    /\ cache' = CacheStore(cache, KeyOf(r), up[r].body)
    /\ puts' = RecordWrite(puts, KeyOf(r), r)
    /\ Finish(r, OnFetched(inp[r], up[r].body))
    /\ UNCHANGED <<inp, val, timer, sent, up, prior>>
    /\ UNCHANGED harnessVars
    /\ UNCHANGED routerVars

\* the entry of an upstream URL reaches its max-age
Expire(k) ==
    /\ k \in DOMAIN cache
    /\ cache' = CacheExpire(cache, k)
    /\ served' = CacheExpire(served, k)
    /\ puts' = CacheExpire(puts, k)
    /\ UNCHANGED <<pc, inp, val, timer, sent, up, out, io, prior>>
    /\ UNCHANGED harnessVars
    /\ UNCHANGED routerVars

Next ==
    \/ \E r \in Requests, q \in WorkerRequests : Receive(r, q)
    \/ \E r \in Requests : CacheHit(r)
    \/ \E r \in Requests : CacheMiss(r)
    \/ \E r \in Requests, st \in Statuses, h \in UpstreamHeaders : FetchResolve(r, st, h)
    \/ \E r \in Requests, err \in TransportErrors : FetchReject(r, err)
    \/ \E r \in Requests : Deadline(r)
    \/ \E r \in Requests, b \in Bodies : TextResolve(r, b)
    \/ \E r \in Requests : TextReject(r)
    \/ \E r \in Requests : CachePut(r)
    \/ \E k \in DOMAIN cache : Expire(k)

Spec == Init /\ [][Next]_vars

----------------------------------------------------------------------------
(* The worker with two requests in flight at once.  The isolate runs one    *)
(* handler at a time but switches at every await, so the steps of the two   *)
(* requests interleave in any order.                                        *)

ConcRequests == {1, 2}

ConcWorkerRequests ==
    { Request("api", "GET", OldThread), Request("preview", "GET", OldThread),
      Request("api", "GET", DirtyThread) }

ConcStatuses == {200, 500}
ConcHeaders == { [h \in {"content-type"} |-> "application/json; charset=UTF-8"] }
ConcBodies == {ThreadJson, CeilingJson}
ConcErrors == { [class |-> "TypeError", name |-> "TypeError"] }

InitConc ==
    /\ pc = [r \in ConcRequests |-> "idle"]
    /\ inp = [r \in ConcRequests |-> NoRequest]
    /\ val = [r \in ConcRequests |-> NotValidated]
    /\ timer = [r \in ConcRequests |-> "none"]
    /\ sent = [r \in ConcRequests |-> <<>>]
    /\ up = [r \in ConcRequests |-> NoUpstream]
    /\ out = [r \in ConcRequests |-> NoOutcome]
    /\ io = [r \in ConcRequests |-> ZeroIO]
    /\ prior = [r \in ConcRequests |-> NoServed]
    /\ cache = EmptyCache
    /\ served = EmptyCache
    /\ puts = NoPuts
    /\ vpc = "off"
    /\ vtarget = Absent
    /\ vfirst = NotValidated
    /\ vagain = NotValidated
    /\ InitRouterIdle
    /\ InitDetectorIdle
    /\ InitClientIdle

NextConc ==
    \/ \E r \in ConcRequests, q \in ConcWorkerRequests : Arrive(r, q)
    \/ \E r \in ConcRequests : CacheHit(r)
    \/ \E r \in ConcRequests : CacheMiss(r)
    \/ \E r \in ConcRequests, st \in ConcStatuses, h \in ConcHeaders : FetchResolve(r, st, h)
    \/ \E r \in ConcRequests, err \in ConcErrors : FetchReject(r, err)
    \/ \E r \in ConcRequests : Deadline(r)
    \/ \E r \in ConcRequests, b \in ConcBodies : TextResolve(r, b)
    \/ \E r \in ConcRequests : TextReject(r)
    \/ \E r \in ConcRequests : CachePut(r)
    \/ \E k \in DOMAIN cache : Expire(k)

SpecConc == InitConc /\ [][NextConc]_vars


----------------------------------------------------------------------------
(* The worker behind its entrypoint: a request is routed first, and the     *)
(* branch taken either forwards it or hands it to one of the two handlers.  *)

RoutePaths ==
    { <<"/", "other-page">>, <<"/", "api", "/", "fetch">>,
      PREFIX, PREFIX \o <<"/">>, PREFIX \o <<"or">>, PREFIX \o <<"/", "anything">>,
      API_ROUTE, API_ROUTE \o <<"/">>,
      PREFIX \o <<"/", "/", "evil.com", "/", "x">> }

\* the paths that are also requested with a method other than GET
PostedPaths == { <<"/", "other-page">>, PREFIX, API_ROUTE }

RouteTargets == { Absent, Param(<<>>), Param(<<"not-a-url">>), OldThread }

BOT_UA == <<"Slackbot", "-LinkExpanding 1.0 (+https://api.slack.com/robots)">>
BROWSER_UA == <<"Mozilla/5.0 (Macintosh; Intel Mac OS X 10_15_7) AppleWebKit/537.36">>

UserAgents ==
    { Absent, Param(BOT_UA), Param(BROWSER_UA), Param(<<"TwitterBot", "/1.0">>) }

RouteRequests ==
    { RawRequest(p, "GET", u, ua) :
        p \in RoutePaths, u \in RouteTargets, ua \in UserAgents }
    \cup { RawRequest(p, "POST", u, ua) :
        p \in PostedPaths, u \in RouteTargets, ua \in UserAgents }

\* what the origin of a forwarded request answers
OriginResponses ==
    { [status |-> 200, headers |-> [h \in {"Content-Type"} |-> "text/html"],
       body |-> <<"<!doctype html>">>],
      [status |-> 404, headers |-> [h \in {"Content-Type"} |-> "text/plain"],
       body |-> <<"not found">>] }

\* the one body the upstream sends behind the router
RouteBodies == {ThreadJson}

InitRoute == Init

\* the entrypoint, up to the first await of the branch taken
Dispatch(r, request) ==
    /\ \A q \in Requests : pc[q] \in {"idle", "done"}
    /\ raw' = request
    /\ \E to \in {Route(request)} :
        /\ route' = to
        /\ IF to \in {"api", "preview"}
           THEN /\ Enter(r, Request(to, request.method, request.url))
                /\ fwd' = NoForward
           ELSE /\ fwd' = IF to = "passthrough" THEN Passthrough(request)
                          ELSE PagesRequest(request)
                /\ pc' = [pc EXCEPT ![r] = "origin"]
                /\ inp' = [inp EXCEPT ![r] = NoRequest]
                /\ val' = [val EXCEPT ![r] = NotValidated]
                /\ out' = [out EXCEPT ![r] = NoOutcome]
                /\ timer' = [timer EXCEPT ![r] = "none"]
                /\ sent' = [sent EXCEPT ![r] = <<>>]
                /\ up' = [up EXCEPT ![r] = NoUpstream]
                /\ io' = [io EXCEPT ![r] = ZeroIO]
                /\ prior' = [prior EXCEPT ![r] = NoServed]
                /\ UNCHANGED <<cache, served, puts>>
                /\ UNCHANGED harnessVars

\* the forwarded fetch resolves: passthrough returns the response itself,
\* handlePagesProxy a new Response of its body, status and headers
OriginResolve(r, response) ==
    /\ pc[r] = "origin"
    /\ pc' = [pc EXCEPT ![r] = "done"]
    /\ out' = [out EXCEPT ![r] = Returned(response)]
    /\ UNCHANGED <<inp, val, timer, sent, up, io, prior, cache, served, puts>>
    /\ UNCHANGED harnessVars
    /\ UNCHANGED routerVars

\* the forwarded fetch rejects: neither branch catches
OriginReject(r) ==
    /\ pc[r] = "origin"
    /\ pc' = [pc EXCEPT ![r] = "done"]
    /\ out' = [out EXCEPT ![r] = Thrown]
    /\ UNCHANGED <<inp, val, timer, sent, up, io, prior, cache, served, puts>>
    /\ UNCHANGED harnessVars
    /\ UNCHANGED routerVars

NextRoute ==
    \/ \E r \in Requests, q \in RouteRequests : Dispatch(r, q)
    \/ \E r \in Requests, o \in OriginResponses : OriginResolve(r, o)
    \/ \E r \in Requests : OriginReject(r)
    \/ \E r \in Requests : CacheHit(r)
    \/ \E r \in Requests : CacheMiss(r)
    \/ \E r \in Requests, st \in ConcStatuses, h \in ConcHeaders : FetchResolve(r, st, h)
    \/ \E r \in Requests, err \in ConcErrors : FetchReject(r, err)
    \/ \E r \in Requests : Deadline(r)
    \/ \E r \in Requests, b \in RouteBodies : TextResolve(r, b)
    \/ \E r \in Requests : TextReject(r)
    \/ \E r \in Requests : CachePut(r)
    \/ \E k \in DOMAIN cache : Expire(k)

SpecRoute == InitRoute /\ [][NextRoute]_vars


----------------------------------------------------------------------------
(* The entrypoint over two threads: requests for two threads (two upstream  *)
(* URLs), from a crawler and from a browser, interleaved with requests that *)
(* fail validation, are refused or are forwarded, over one cache.           *)

ShareRequests ==
    { RawRequest(p, "GET", u, ua) :
        p \in { <<"/", "other-page">>, PREFIX, PREFIX \o <<"/", "anything">>, API_ROUTE },
        u \in { Absent, Param(<<"not-a-url">>), OldThread, DirtyThread },
        ua \in { Param(BOT_UA), Param(BROWSER_UA) } }
    \cup { RawRequest(API_ROUTE, "POST", u, Param(BROWSER_UA)) : u \in {OldThread, DirtyThread} }
    \cup { RawRequest(PREFIX, "POST", DirtyThread, Param(BOT_UA)) }

ShareBodies == {ThreadJson, MarkupJson, Garbage}

NextShare ==
    \/ \E r \in Requests, q \in ShareRequests : Dispatch(r, q)
    \/ \E r \in Requests, o \in OriginResponses : OriginResolve(r, o)
    \/ \E r \in Requests : OriginReject(r)
    \/ \E r \in Requests : CacheHit(r)
    \/ \E r \in Requests : CacheMiss(r)
    \/ \E r \in Requests, st \in ConcStatuses, h \in ConcHeaders : FetchResolve(r, st, h)
    \/ \E r \in Requests, err \in ConcErrors : FetchReject(r, err)
    \/ \E r \in Requests : Deadline(r)
    \/ \E r \in Requests, b \in ShareBodies : TextResolve(r, b)
    \/ \E r \in Requests : TextReject(r)
    \/ \E r \in Requests : CachePut(r)
    \/ \E k \in DOMAIN cache : Expire(k)

SpecShare == InitRoute /\ [][NextShare]_vars

----------------------------------------------------------------------------
(* The browser client: convert of RedditForm (the version with the proxy    *)
(* fallback).  One conversion runs at a time: the submit button is disabled *)
(* while loading.  Strings the user sees are sequences of pieces, their     *)
(* dashes and apostrophes written in ASCII.                                 *)

BASE_URL == <<"/", "reddit", "/">>

\* the part of a URL text before its first "?"
RECURSIVE UntilQuery(_)
UntilQuery(text) ==
    IF text = <<>> \/ Head(text) \in QueryTokens THEN <<>>
    ELSE <<Head(text)>> \o UntilQuery(Tail(text))

\* url.replace(/\/?(\?.*)?$/, ''): the query is cut off with everything
\* behind it, and one slash before it (or at the end) goes with it
CleanUrl(text) ==
    LET cut == UntilQuery(text) IN
    IF cut # <<>> /\ cut[Len(cut)] = "/" THEN SubSeq(cut, 1, Len(cut) - 1) ELSE cut

JsonUrl(text) == CleanUrl(text) \o <<".json">>

ProxyUrl(text) == BASE_URL \o <<"api/fetch?url=">> \o encodeURIComponent(text)

\* a call of fetch: the URL and the cache mode
FetchCall(to, text, mode) == [to |-> to, url |-> text, cache |-> mode]

\* a node of the comment tree: kind, data.author, data.body (its lines, or
\* no body at all) and the children of data.replies
Comment(kind, author, hasBody, lines, replies) ==
    [kind |-> kind, author |-> author, hasBody |-> hasBody, lines |-> lines,
     replies |-> replies]

\* "> ".repeat(depth)
RECURSIVE Indent(_)
Indent(depth) == IF depth = 0 THEN <<>> ELSE <<"> ">> \o Indent(depth - 1)

\* the lines of a body, each behind the indent, joined by "\n"
RECURSIVE IndentLines(_, _)
IndentLines(lines, depth) ==
    IF lines = <<>> THEN <<>>
    ELSE Indent(depth) \o <<Head(lines)>>
         \o (IF Len(lines) > 1 THEN <<"\n">> ELSE <<>>)
         \o IndentLines(Tail(lines), depth)

\* processComment over the t1 nodes of a list of children
RECURSIVE processComment(_, _)
processComment(children, depth) ==
    IF children = <<>> THEN <<>>
    ELSE LET comment == Head(children) IN
         (IF comment.kind # "t1" THEN <<>>
          ELSE Indent(depth) \o <<"**u/", comment.author, "**\n">>
               \o IndentLines(comment.lines, depth) \o <<"\n\n">>
               \o processComment(comment.replies, depth + 1))
         \o processComment(Tail(children), depth)

\* comment.data.body.split throws for a t1 node without body
RECURSIVE CommentThrows(_)
CommentThrows(children) ==
    \E i \in DOMAIN children :
        /\ children[i].kind = "t1"
        /\ ~children[i].hasBody \/ CommentThrows(children[i].replies)

\* what convert does with the parsed data: the error it sets (none is the
\* empty sequence) and the onSubmit calls it makes
Converted(message, results) == [error |-> message, submits |-> results]

Completed(d) ==
    IF ~d.array \/ ~d.post.present
    THEN Converted(<<"Unexpected response - is this a Reddit thread URL?">>, <<>>)
    ELSE IF ~d.second \/ CommentThrows(d.comments)
    THEN Converted(<<"Unexpected error: ", "TypeError">>, <<>>)
    ELSE Converted(<<>>,
           << [markdown |->
                 <<"# ">> \o TemplateText(d.post.title) \o <<"\n\n", "*Posted by u/">>
                 \o TemplateText(d.post.author) \o <<"*\n\n">>
                 \o TemplateText(d.post.selftext) \o <<"\n\n---\n\n">>
                 \o processComment(d.comments, 0),
               title |-> d.post.title] >>)

\* the messages table of the proxy's error codes; upstream_error shows the
\* proxy's own message when it has one
Messages(code, message) ==
    CASE code = "rate_limited" -> <<"Reddit is rate-limiting requests - try again in a minute">>
      [] code = "upstream_forbidden" -> <<"Reddit blocked this request - try again later">>
      [] code = "upstream_timeout" -> <<"Reddit took too long to respond - try again">>
      [] code = "upstream_unreachable" -> <<"Could not reach Reddit - try again later">>
      [] code = "upstream_error" ->
            IF TruthyValue(message) THEN message.s ELSE <<"Reddit returned an error">>
      [] code = "upstream_parse_error" -> <<"Got an unexpected response from Reddit">>
      [] code = "response_too_large" -> <<"That thread is too large to convert">>
      [] code = "invalid_url" -> <<"That doesn't look like a valid URL">>
      [] code = "invalid_path" -> <<"That doesn't look like a Reddit thread URL">>
      [] code = "host_not_allowed" -> <<"Only Reddit URLs are supported">>
      [] OTHER -> <<>>

\* the body of a non-ok proxy response as response.json() finds it: it does
\* not parse (errorBody stays {}), it is null, or an object with these
\* error and message
ErrorJson(json, null, code, message) ==
    [json |-> json, null |-> null, error |-> code, message |-> message]

\* the message set for a non-ok proxy response; errorBody.error of null throws
ProxyFailed(errorBody) ==
    IF errorBody.json /\ errorBody.null
    THEN Converted(<<"Unexpected error: ", "TypeError">>, <<>>)
    ELSE LET got == IF errorBody.json THEN errorBody.error ELSE Undefined
             said == IF errorBody.json THEN errorBody.message ELSE Undefined
             code == IF TruthyValue(got) THEN got.s[1] ELSE "unknown"
         IN  Converted(
               IF Messages(code, said) # <<>> THEN Messages(code, said)
               ELSE IF TruthyValue(said) THEN said.s
               ELSE <<"Something went wrong (", code, ")">>,
               <<>>)

\* what the user submits: threads (plain, with a trailing slash, with
\* credentials, query and fragment) and URLs that are no thread
ClientUrls ==
    { OldThread.text, DirtyThread.text,
      UrlText("https:", "", "www.reddit.com", "",
              <<"/", "r", "/", "test", "/", "comments", "/", "abc123", "/">>, "", ""),
      UrlText("https:", "", "www.reddit.com", "", <<"/", "r", "/", "movies">>, "", ""),
      UrlText("http:", "", "evil.com", "", <<"/", "r", "/", "movies">>, "", ""),
      UrlText("https:", "", "old.reddit.com", "",
              <<"/", "r", "/", "test", "/", "comments", "/", "abc123">>, "", "#top") }

ThreadPage ==
    Payload(TRUE, TRUE, ClientPost(Str(<<"Test">>), Str(<<"testuser">>), Str(<<"Body">>)), TRUE,
            << Comment("t1", "alice", TRUE, <<"first", "second">>,
                       << Comment("t1", "bob", TRUE, <<"reply">>, <<>>),
                          Comment("more", "", FALSE, <<>>, <<>>) >>),
               Comment("more", "", FALSE, <<>>, <<>>) >>)

\* a thread with a comment that has no body
BodilessPage ==
    Payload(TRUE, TRUE, ClientPost(Str(<<"Test">>), Str(<<"testuser">>), Undefined), TRUE,
            << Comment("t1", "alice", TRUE, <<"first">>,
                       << Comment("t1", "bob", FALSE, <<>>, <<>>) >>) >>)

\* an array with the post's listing only: data[1] is undefined
PostOnlyPage ==
    Payload(TRUE, TRUE, ClientPost(Str(<<"Test">>), Str(<<"testuser">>), Str(<<>>)), FALSE, <<>>)

\* a JSON object (such as {"error": 404}), and a page that is not JSON
ErrorObject == Payload(TRUE, FALSE, NoClientPost, FALSE, <<>>)
HtmlPage == Payload(FALSE, FALSE, NoClientPost, FALSE, <<>>)

ClientBodies == {ThreadPage, BodilessPage, PostOnlyPage, ErrorObject, HtmlPage}

ClientStatuses == {200, 403, 429, 502}

ClientContentTypes == {"", "application/json", "text/html"}

ProxyErrorBodies ==
    { ErrorJson(TRUE, FALSE, Str(<<"rate_limited">>), Str(<<"Reddit is rate-limiting requests">>)),
      ErrorJson(TRUE, FALSE, Str(<<"upstream_error">>), Str(<<"Reddit returned HTTP ", "500">>)),
      ErrorJson(TRUE, FALSE, Str(<<"upstream_error">>), Undefined),
      ErrorJson(TRUE, FALSE, Str(<<"method_not_allowed">>), Undefined),
      ErrorJson(TRUE, FALSE, Str(<<"missing_url">>), Str(<<"Provide a Reddit thread URL as ?url=...">>)),
      ErrorJson(TRUE, TRUE, Undefined, Undefined),
      ErrorJson(FALSE, FALSE, Undefined, Undefined) }

\* a convert that resets loading after onSubmit only, not in a finally block
ConvertEnds_LoadingLeft(result) ==
    /\ error' = IF result.error # <<>> THEN result.error ELSE error
    /\ submits' = submits \o result.submits
    /\ loading' = IF result.error # <<>> THEN loading ELSE FALSE
    /\ cpc' = "done"
    /\ UNCHANGED <<formUrl, calls>>

\* convert returns (or its try block is left otherwise): the error, if any,
\* is set, onSubmit has been called or not, and the finally block runs
ConvertEnds(result) ==
    /\ error' = IF result.error # <<>> THEN result.error ELSE error
    /\ submits' = submits \o result.submits
    /\ loading' = FALSE
    /\ cpc' = "done"
    /\ UNCHANGED <<formUrl, calls>>

\* the catch block of the direct attempt: the proxy is fetched
FallsBack ==
    /\ calls' = Append(calls, FetchCall("proxy", ProxyUrl(formUrl), "default"))
    /\ cpc' = "proxy"
    /\ UNCHANGED <<formUrl, loading, error, data, submits>>

\* convert starts: setLoading(true), setError(''), the direct fetch is called
Convert(text) ==
    /\ cpc \in {"idle", "done"}
    /\ formUrl' = text
    /\ loading' = TRUE
    /\ error' = <<>>
    /\ data' = NoData
    /\ calls' = <<FetchCall("direct", JsonUrl(text), "no-store")>>
    /\ direct' = NoDirect
    /\ submits' = <<>>
    /\ cpc' = "direct"
    /\ UNCHANGED workerVars
    /\ UNCHANGED <<vpc, vtarget, vfirst, vagain, agent, crawler>>
    /\ UNCHANGED routerVars

\* the direct fetch rejects (CORS, network)
DirectReject ==
    /\ cpc = "direct"
    /\ direct' = DirectAttempt("rejected", 0, "unread")
    /\ FallsBack
    /\ UNCHANGED workerVars
    /\ UNCHANGED <<vpc, vtarget, vfirst, vagain, agent, crawler>>
    /\ UNCHANGED routerVars

\* the direct fetch resolves: a status that is not ok is thrown
DirectResolve(status) ==
    /\ cpc = "direct"
    /\ direct' = DirectAttempt("response", status, "unread")
    /\ IF ~Ok(status) THEN FallsBack
       ELSE /\ cpc' = "directJson"
            /\ UNCHANGED <<formUrl, loading, error, data, calls, submits>>
    /\ UNCHANGED workerVars
    /\ UNCHANGED <<vpc, vtarget, vfirst, vagain, agent, crawler>>
    /\ UNCHANGED routerVars

\* a client that also goes to the proxy when the direct answer is JSON of
\* another shape than a thread
DirectJson_FallsBackOnShape(body) ==
    /\ cpc = "directJson"
    /\ direct' = [direct EXCEPT !.body = IF body.json THEN "json" ELSE "not-json"]
    /\ IF ~body.json \/ ~body.array THEN FallsBack
       ELSE data' = body /\ ConvertEnds(Completed(body))
    /\ UNCHANGED workerVars
    /\ UNCHANGED <<vpc, vtarget, vfirst, vagain, agent, crawler>>
    /\ UNCHANGED routerVars

\* await directRes.json() settles: a body that is not JSON rejects it
DirectJson(body) ==
    /\ cpc = "directJson"
    /\ direct' = [direct EXCEPT !.body = IF body.json THEN "json" ELSE "not-json"]
    /\ IF ~body.json THEN FallsBack
       ELSE data' = body /\ ConvertEnds(Completed(body))
    /\ UNCHANGED workerVars
    /\ UNCHANGED <<vpc, vtarget, vfirst, vagain, agent, crawler>>
    /\ UNCHANGED routerVars

\* the proxy fetch rejects
ProxyReject ==
    /\ cpc = "proxy"
    /\ UNCHANGED direct
    /\ ConvertEnds(Converted(<<"Network error - could not reach the server">>, <<>>))
    /\ UNCHANGED data
    /\ UNCHANGED workerVars
    /\ UNCHANGED <<vpc, vtarget, vfirst, vagain, agent, crawler>>
    /\ UNCHANGED routerVars

\* the proxy fetch resolves with a status and a content type ('' for none)
ProxyResolve(status, contentType) ==
    /\ cpc = "proxy"
    /\ UNCHANGED direct
    /\ IF ~Ok(status)
       THEN /\ cpc' = "proxyError"
            /\ UNCHANGED <<formUrl, loading, error, calls, submits>>
       ELSE IF ~IncludesJson(contentType)
       THEN ConvertEnds(Converted(<<"Got an unexpected response from the server">>, <<>>))
       ELSE /\ cpc' = "proxyJson"
            /\ UNCHANGED <<formUrl, loading, error, calls, submits>>
    /\ UNCHANGED data
    /\ UNCHANGED workerVars
    /\ UNCHANGED <<vpc, vtarget, vfirst, vagain, agent, crawler>>
    /\ UNCHANGED routerVars

\* await response.json() of a non-ok proxy response settles
ProxyError(errorBody) ==
    /\ cpc = "proxyError"
    /\ UNCHANGED direct
    /\ ConvertEnds(ProxyFailed(errorBody))
    /\ UNCHANGED data
    /\ UNCHANGED workerVars
    /\ UNCHANGED <<vpc, vtarget, vfirst, vagain, agent, crawler>>
    /\ UNCHANGED routerVars

\* await response.json() of an ok proxy response settles
ProxyJson(body) ==
    /\ cpc = "proxyJson"
    /\ UNCHANGED direct
    /\ IF ~body.json
       THEN /\ ConvertEnds(Converted(<<"Got an invalid response from the server">>, <<>>))
            /\ UNCHANGED data
       ELSE data' = body /\ ConvertEnds(Completed(body))
    /\ UNCHANGED workerVars
    /\ UNCHANGED <<vpc, vtarget, vfirst, vagain, agent, crawler>>
    /\ UNCHANGED routerVars

InitClient == Init

NextClient ==
    \/ \E text \in ClientUrls : Convert(text)
    \/ DirectReject
    \/ \E status \in ClientStatuses : DirectResolve(status)
    \/ \E body \in ClientBodies : DirectJson(body)
    \/ ProxyReject
    \/ \E status \in ClientStatuses, contentType \in ClientContentTypes :
          ProxyResolve(status, contentType)
    \/ \E errorBody \in ProxyErrorBodies : ProxyError(errorBody)
    \/ \E body \in ClientBodies : ProxyJson(body)

SpecClient == InitClient /\ [][NextClient]_vars

----------------------------------------------------------------------------
(* Crawler detector harness: isCrawler is pure; it is applied to the        *)
(* User-Agent header of a request as the entrypoint reads it, for every     *)
(* header of Agents.                                                        *)

\* the pieces User-Agent headers are made of: the eight names as the list
\* spells them, four of them in another case, and pieces that name no
\* crawler of the list
AgentTokens ==
    BOT_UA_PATTERNS
    \cup {"slackbot", "TwitterBot", "WHATSAPP", "FacebookExternalHit"}
    \cup {"Mozilla/5.0 ", "Googlebot", "/1.0"}

\* no header, an empty header, and every header of one or two pieces
Agents ==
    {Absent, Param(<<>>)}
    \cup { Param(<<a>>) : a \in AgentTokens }
    \cup { Param(<<a, b>>) : a \in AgentTokens, b \in AgentTokens }

InitDetect ==
    /\ InitWorkerIdle
    /\ vpc = "off"
    /\ vtarget = Absent
    /\ vfirst = NotValidated
    /\ vagain = NotValidated
    /\ InitRouterIdle
    /\ agent \in Agents
    /\ crawler = "untested"
    /\ InitClientIdle

\* isCrawler(request.headers.get('User-Agent') || '')
Detect ==
    /\ crawler = "untested"
    /\ crawler' = IF isCrawler(UserAgentOf([ua |-> agent])) THEN "yes" ELSE "no"
    /\ UNCHANGED <<vpc, vtarget, vfirst, vagain, agent, clientVars>>
    /\ UNCHANGED workerVars
    /\ UNCHANGED routerVars

NextDetect == Detect

SpecDetect == InitDetect /\ [][NextDetect]_vars

----------------------------------------------------------------------------
(* Validation harness: validateRedditUrl is pure; it is applied to every   *)
(* url parameter of Targets, and again to the jsonUrl it derived.          *)

Schemes == {"https:", "HTTPS:", "http:"}
Userinfos == {"", "user:pw@"}
Hosts == HostTokens
Ports == {"", ":8443"}
Queries == {"", "?limit=5"}
Fragments == {"", "#top"}

ThreadPath == <<"/", "r", "/", "test", "/", "comments", "/", "abc123">>

Paths ==
    { <<>>,
      <<"/">>,
      <<"/", "r", "/", "movies">>,
      ThreadPath,
      ThreadPath \o <<"/">>,
      ThreadPath \o <<"/", "some_title">>,
      ThreadPath \o <<"/", "some_title", "/">>,
      ThreadPath \o <<"/", "some_title", "/", "/">>,
      ThreadPath \o <<"/", "some_title", ".json">>,
      ThreadPath \o <<".json">>,
      ThreadPath \o <<"/", " ">>,
      ThreadPath \o <<"/", "..">>,
      ThreadPath \o <<"/", "..", "/", "abc123", "/", "x">>,
      <<"/", "r", "/", "Ab_1", "/", "comments", "/", "abc123", "/">>,
      <<"/", "r", "/", "test", "/", "comments", "/", "ABC">> }

UrlTargets ==
    { Param(UrlText(s, u, h, p, path, q, f)) :
        s \in Schemes, u \in Userinfos, h \in Hosts, p \in Ports,
        path \in Paths, q \in Queries, f \in Fragments }

Targets == {Absent, Param(<<>>), Param(<<"not-a-url">>)} \cup UrlTargets

InitValidate ==
    /\ InitWorkerIdle
    /\ vpc = "start"
    /\ vtarget \in Targets
    /\ vfirst = NotValidated
    /\ vagain = NotValidated
    /\ InitRouterIdle
    /\ InitDetectorIdle
    /\ InitClientIdle

Validate ==
    /\ vpc = "start"
    /\ vfirst' = validateRedditUrl(vtarget)
    /\ vpc' = "validated"
    /\ UNCHANGED <<vtarget, vagain, agent, crawler, clientVars>>
    /\ UNCHANGED workerVars
    /\ UNCHANGED routerVars

Revalidate ==
    /\ vpc = "validated"
    /\ vfirst.ok
    /\ vagain' = validateRedditUrl(Param(vfirst.jsonUrl))
    /\ vpc' = "revalidated"
    /\ UNCHANGED <<vtarget, vfirst, agent, crawler, clientVars>>
    /\ UNCHANGED workerVars
    /\ UNCHANGED routerVars

NextValidate == Validate \/ Revalidate

SpecValidate == InitValidate /\ [][NextValidate]_vars

----------------------------------------------------------------------------
(* Claims about validateRedditUrl, checked under SpecValidate *)

\* the rules of the validator in their order, each as the set of url
\* parameters that break it
RuleFails(i, p) ==
    LET Breaks(u) ==
            CASE i = 1 -> ~p.present
              [] i = 2 -> ~u.ok
              [] i = 3 -> u.ok /\ u.protocol # "https:"
              [] i = 4 -> u.ok /\ u.hostname \notin ALLOWED_HOSTS
              [] i = 5 -> u.ok /\ ~THREAD_PATH_RE(StripTrailingSlashes(u.pathname))
    IN  Breaks(ParseURL(p.text))

\* the same rules with the first one read as "absent or empty"
RuleFailsOrEmpty(i, p) == IF i = 1 THEN ~Truthy(p) ELSE RuleFails(i, p)

RuleCode ==
    <<"missing_url", "invalid_url", "https_required", "host_not_allowed", "invalid_path">>

\* the validator's answer res for p is the code of the first rule of Fails
\* that p breaks, with status 400, and a success when p breaks none
AnswersFirstFailing(p, res, Fails(_, _)) ==
    LET broken == {i \in 1..5 : Fails(i, p)} IN
    IF broken = {} THEN res.ok
    ELSE LET k == CHOOSE i \in broken : \A j \in broken : i <= j IN
         /\ ~res.ok
         /\ res.response.status = 400
         /\ DOMAIN res.response.body = {"error", "message"}
         /\ res.response.body.error = RuleCode[k]

\* C1 as claimed: every url parameter gets the code of the first rule it
\* breaks among (absent, unparseable, not https, host not allowed, not a
\* thread path), with status 400.
C1_AsClaimed ==
    vpc # "start" => AnswersFirstFailing(vtarget, vfirst, RuleFails)

\* C1 amended: the same, with the first rule being "absent or empty": an
\* empty url parameter is answered missing_url, not invalid_url.
C1_FirstFailingRuleWins ==
    vpc # "start" => AnswersFirstFailing(vtarget, vfirst, RuleFailsOrEmpty)

\* an http URL on a host outside the allow-list with a bad path was answered
\* https_required
C1_Witness ==
    /\ vpc # "start"
    /\ RuleFails(3, vtarget) /\ RuleFails(4, vtarget) /\ RuleFails(5, vtarget)
    /\ vfirst.response.body.error = "https_required"

\* C4 as claimed: re-validating the jsonUrl of a valid target succeeds and
\* yields the same jsonUrl, hostname and cleanPath.
C4_AsClaimed ==
    vpc = "revalidated" => vagain.ok /\ vagain = vfirst

\* C4 amended: re-validating the jsonUrl of a valid target never breaks the
\* absent, parse, scheme or host rule; it is rejected with invalid_path when
\* the clean path ends at the thread id, and otherwise succeeds with the same
\* hostname and with cleanPath and jsonUrl each extended by ".json".
C4_RevalidationAppendsSuffix ==
    vpc = "revalidated" =>
        /\ vagain.ok <=> Len(SplitSegments(vfirst.cleanPath)) > 4
        /\ ~vagain.ok => /\ vagain.response.status = 400
                         /\ vagain.response.body.error = "invalid_path"
        /\ vagain.ok => /\ vagain.hostname = vfirst.hostname
                        /\ vagain.cleanPath = vfirst.cleanPath \o <<".json">>
                        /\ vagain.jsonUrl = vfirst.jsonUrl \o <<".json">>

\* a jsonUrl with a slug was re-validated and accepted with a longer path
C4_Witness ==
    /\ vpc = "revalidated"
    /\ vagain.ok
    /\ Len(vagain.cleanPath) = Len(vfirst.cleanPath) + 1

\* where the path of a URL text ends: at its query or fragment, or at its end
PathEnd(text) ==
    IF \E i \in DOMAIN text : text[i] \in QueryTokens \cup FragmentTokens
    THEN CHOOSE i \in DOMAIN text :
            /\ text[i] \in QueryTokens \cup FragmentTokens
            /\ \A j \in 1..(i - 1) : text[j] \notin QueryTokens \cup FragmentTokens
    ELSE Len(text) + 1

RECURSIVE Unslashed(_)
\* a text without the slashes at its end
Unslashed(text) ==
    IF text # <<>> /\ text[Len(text)] = "/" THEN Unslashed(SubSeq(text, 1, Len(text) - 1))
    ELSE text

\* the URL text with the slashes at the end of its path replaced by run
WithTrailingSlashes(text, run) ==
    Unslashed(SubSeq(text, 1, PathEnd(text) - 1)) \o run
        \o SubSeq(text, PathEnd(text), Len(text))

\* no, one, two and three slashes
SlashRuns == { <<>>, <<"/">>, <<"/", "/">>, <<"/", "/", "/">> }

\* C27: a valid target and every target that differs from it only in the
\* number of slashes at the end of its path derive the same upstream URL
\* (the cache key), host and clean path; and stripping the slashes of a
\* clean path changes nothing.
C27_TrailingSlashesIgnored ==
    (vpc # "start" /\ vfirst.ok) =>
        /\ \A run \in SlashRuns :
              \E other \in {validateRedditUrl(Param(WithTrailingSlashes(vtarget.text, run)))} :
                  /\ other.ok
                  /\ other.jsonUrl = vfirst.jsonUrl
                  /\ other.hostname = vfirst.hostname
                  /\ other.cleanPath = vfirst.cleanPath
        /\ StripTrailingSlashes(vfirst.cleanPath) = vfirst.cleanPath
        /\ vfirst.cleanPath[Len(vfirst.cleanPath)] # "/"

\* a valid target whose path ends in two slashes, before a query and a
\* fragment
C27_Witness ==
    /\ vpc = "validated" /\ vfirst.ok
    /\ PathEnd(vtarget.text) <= Len(vtarget.text)
    /\ SubSeq(vtarget.text, PathEnd(vtarget.text) - 2, PathEnd(vtarget.text) - 1) = <<"/", "/">>
    /\ WithTrailingSlashes(vtarget.text, <<>>) # vtarget.text

\* the error code of the validator's answer, "" for a success
CodeOf(res) == IF res.ok THEN "" ELSE res.response.body.error

\* the url parameter p does not parse as an absolute URL
Unparseable(p) == p.present /\ ~ParseURL(p.text).ok

\* C34 as claimed: the validator answers missing_url if and only if the url
\* parameter is absent; a parameter that is present but empty is, like any
\* other value that does not parse as an absolute URL, answered invalid_url.
C34_AsClaimed ==
    vpc # "start" =>
        /\ CodeOf(vfirst) = "missing_url" <=> ~vtarget.present
        /\ Unparseable(vtarget) => CodeOf(vfirst) = "invalid_url"

\* C34 amended: the validator answers missing_url if and only if the url
\* parameter is absent or empty, and invalid_url if and only if it is
\* non-empty and does not parse as an absolute URL.
C34_MissingIffAbsentOrEmpty ==
    vpc # "start" =>
        /\ CodeOf(vfirst) = "missing_url" <=> ~Truthy(vtarget)
        /\ CodeOf(vfirst) = "invalid_url" <=> (Truthy(vtarget) /\ Unparseable(vtarget))
        /\ CodeOf(vfirst) \in {"missing_url", "invalid_url"} => vfirst.response.status = 400

\* the present but empty url parameter was answered missing_url
C34_Witness ==
    /\ vpc # "start"
    /\ vtarget = Param(<<>>)
    /\ CodeOf(vfirst) = "missing_url"

----------------------------------------------------------------------------
(* Claims about the worker, checked under Spec *)

\* the error code of an outcome, "" when it carries none
ErrorOf(o) ==
    IF o.kind = "response" /\ "error" \in DOMAIN o.response.body
    THEN o.response.body.error ELSE ""

\* request r of the API route got past the method check
ApiGet(r) == inp[r].handler = "api" /\ inp[r].method = "GET"

\* the tokens of a url parameter that must not reach the upstream
ForbiddenTokens == UserinfoTokens \cup PortTokens \cup QueryTokens \cup FragmentTokens

\* the upstream request q is the canonical one for the url parameter p
CanonicalFor(q, p) ==
    LET Shape(u, t) ==
            /\ u.ok /\ u.protocol = "https:" /\ u.hostname \in ALLOWED_HOSTS
            /\ u.username = "" /\ u.port = "" /\ u.search = "" /\ u.hash = ""
            /\ q.url = <<"https:", "//", u.hostname>> \o u.pathname
            /\ t.ok /\ u.hostname = t.hostname
            /\ \E cleanPath \in {StripTrailingSlashes(t.pathname)} :
                  /\ THREAD_PATH_RE(cleanPath)
                  /\ u.pathname = cleanPath \o <<".json">>
    IN  /\ q.method = "GET"
        /\ \A i \in DOMAIN q.url : q.url[i] \notin ForbiddenTokens
        /\ Shape(ParseURL(q.url), ParseURL(p.text))

\* C2: every request sent upstream, on the API path and on the preview
\* path, is a GET to https://<allowed host><validated clean path>.json; no
\* port, credentials, query or fragment of the url parameter is in it, and
\* the method of the incoming request does not change it.
C2_UpstreamRequestIsCanonical ==
    \A r \in Requests : \A i \in DOMAIN sent[r] :
        /\ val[r].ok
        /\ sent[r][i].url = val[r].jsonUrl
        /\ CanonicalFor(sent[r][i], inp[r].url)

\* a POST for the preview of a thread URL written with credentials, port,
\* query, fragment and upper case has sent its upstream request
C2_Witness ==
    \E r \in Requests :
        /\ inp[r].handler = "preview" /\ inp[r].method = "POST"
        /\ inp[r].url = DirtyThread
        /\ Len(sent[r]) = 1

\* C3: a request whose url parameter fails validation does no I/O: it is
\* answered in the step that receives it, with no cache lookup, no fetch,
\* no body read and no cache write; the API route answers 400 with the
\* validator's code (405 when the method is not GET), the preview route
\* answers the fallback preview.
C3_InvalidTargetDoesNoIO ==
    \A r \in Requests :
        (inp[r].handler # "none" /\ ~validateRedditUrl(inp[r].url).ok) =>
            /\ pc[r] = "done"
            /\ io[r] = ZeroIO
            /\ sent[r] = <<>>
            /\ up[r] = NoUpstream
            /\ out[r].kind = "response"
            /\ ApiGet(r) =>
                  /\ out[r].response.status = 400
                  /\ ErrorOf(out[r]) \in {RuleCode[i] : i \in 1..5}
            /\ (inp[r].handler = "api" /\ ~ApiGet(r)) => out[r].response.status = 405
            /\ inp[r].handler = "preview" => out[r] = FallbackPreview(inp[r].url)

\* the preview of a URL on a host outside the allow-list was answered with
\* the fallback
C3_Witness ==
    \E r \in Requests :
        /\ pc[r] = "done"
        /\ inp[r].handler = "preview"
        /\ val[r].response.body.error = "host_not_allowed"
        /\ out[r].response.status = 200
        /\ out[r].response.body.title = escapeHtml(FallbackTitle)

C6_StatusMapping ==
    \A r \in Requests :
        (up[r].kind \in {"response", "broken"}) =>
            LET status == up[r].status
                api == inp[r].handler = "api"
            IN  /\ status = 429 =>
                      /\ pc[r] = "done" /\ io[r].text = 0
                      /\ api => /\ out[r].response.status = 429
                                /\ ErrorOf(out[r]) = "rate_limited"
                /\ status = 403 =>
                      /\ pc[r] = "done" /\ io[r].text = 0
                      /\ api => /\ out[r].response.status = 502
                                /\ ErrorOf(out[r]) = "upstream_forbidden"
                /\ (status \notin {429, 403} /\ ~(status >= 200 /\ status <= 299)) =>
                      /\ pc[r] = "done" /\ io[r].text = 0
                      /\ api => /\ out[r].response.status = 502
                                /\ ErrorOf(out[r]) = "upstream_error"
                                /\ out[r].response.body.message[2] = status
                /\ (status >= 200 /\ status <= 299) =>
                      /\ ErrorOf(out[r]) \notin
                            {"rate_limited", "upstream_forbidden", "upstream_error"}
                      /\ IF CheckContentType(up[r].headers).ok
                         THEN pc[r] # "done" \/ io[r].text = 1
                         ELSE /\ pc[r] = "done" /\ io[r].text = 0
                              /\ api => /\ out[r].response.status = 502
                                        /\ ErrorOf(out[r]) = "upstream_parse_error"

\* an upstream 300 with a JSON content type was answered upstream_error
C6_Witness ==
    \E r \in Requests :
        /\ pc[r] = "done" /\ inp[r].handler = "api"
        /\ up[r].kind = "response" /\ up[r].status = 300
        /\ CheckContentType(up[r].headers).ok
        /\ ErrorOf(out[r]) = "upstream_error"
        /\ out[r].response.body.message = <<"Reddit returned HTTP ", 300>>

\* the API response to r has a Retry-After header exactly when Carried,
\* and then the upstream's value; other errors have none
RetryAfterFollows(r, Carried(_)) ==
    (pc[r] = "done" /\ inp[r].handler = "api" /\ out[r].kind = "response") =>
        IF up[r].kind = "response" /\ up[r].status = 429
        THEN /\ "Retry-After" \in DOMAIN out[r].response.headers <=> Carried(up[r].headers)
             /\ "Retry-After" \in DOMAIN out[r].response.headers =>
                   out[r].response.headers["Retry-After"] = up[r].headers["Retry-After"]
        ELSE "Retry-After" \notin DOMAIN out[r].response.headers

HasRetryAfter(headers) == "Retry-After" \in DOMAIN headers
HasNonEmptyRetryAfter(headers) == TruthyHeader(HeaderGet(headers, "Retry-After"))

\* C7 as claimed: the answer to an upstream 429 has a Retry-After header
\* iff the upstream response had one, with the same value, and no other
\* error response has one.
C7_AsClaimed ==
    \A r \in Requests : RetryAfterFollows(r, HasRetryAfter)

\* C7 amended: the answer to an upstream 429 has a Retry-After header iff
\* the upstream response had one with a non-empty value, with the same
\* value; an absent or empty one gives none, and no other error response
\* has one.
C7_RetryAfterCarriedWhenNonEmpty ==
    \A r \in Requests : RetryAfterFollows(r, HasNonEmptyRetryAfter)

\* an upstream 429 with Retry-After: 30 was answered with Retry-After: 30
C7_Witness ==
    \E r \in Requests :
        /\ pc[r] = "done" /\ inp[r].handler = "api"
        /\ up[r].kind = "response" /\ up[r].status = 429
        /\ HasRetryAfter(up[r].headers) /\ up[r].headers["Retry-After"] = "30"
        /\ out[r].response.status = 429
        /\ out[r].response.headers["Retry-After"] = "30"

\* C8: a rejected fetch() is answered upstream_timeout with 504 exactly
\* when the deadline timer fired and aborted it, and upstream_unreachable
\* with 502 for every transport failure; nothing else comes of a rejection.
C8_RejectionClassified ==
    \A r \in Requests :
        (up[r].kind = "rejected") =>
            /\ pc[r] = "done" /\ io[r].text = 0 /\ io[r].put = 0
            /\ timer[r] \in {"fired", "cleared"}
            /\ inp[r].handler = "api" =>
                  /\ out[r].kind = "response"
                  /\ DOMAIN out[r].response.body = {"error", "message"}
                  /\ IF timer[r] = "fired"
                     THEN /\ ErrorOf(out[r]) = "upstream_timeout"
                          /\ out[r].response.status = 504
                     ELSE /\ ErrorOf(out[r]) = "upstream_unreachable"
                          /\ out[r].response.status = 502
            /\ inp[r].handler = "preview" => out[r] = FallbackPreview(inp[r].url)

\* a fetch() rejected with a DOMException that is not the abort was
\* answered upstream_unreachable
C8_Witness ==
    \E r \in Requests :
        /\ inp[r].handler = "api"
        /\ up[r].kind = "rejected" /\ up[r].error.class = "DOMException"
        /\ timer[r] = "cleared"
        /\ ErrorOf(out[r]) = "upstream_unreachable"

\* C9 as claimed: as long as the upstream has not delivered all of its
\* response, headers and body, the deadline is armed, so that its expiry
\* cancels the request and ends the wait.
C9_AsClaimed ==
    \A r \in Requests : pc[r] \in {"fetch", "text"} => timer[r] = "pending"

ErrorCodes ==
    {"missing_url", "invalid_url", "https_required", "host_not_allowed", "invalid_path",
     "method_not_allowed", "rate_limited", "upstream_forbidden", "upstream_error",
     "upstream_parse_error", "response_too_large", "upstream_timeout",
     "upstream_unreachable"}

\* C10 as claimed: an API request that entered the fetch pipeline ends
\* either with the 200 of a body that was read and parsed, or with a JSON
\* error response holding one of the error codes and a message; nothing is
\* thrown.
C10_AsClaimed ==
    \A r \in Requests :
        (pc[r] = "done" /\ ApiGet(r) /\ val[r].ok) =>
            /\ out[r].kind = "response"
            /\ \/ /\ out[r].response.status = 200
                  /\ JSONParse(out[r].response.body).ok
                  /\ out[r].response.body.length <= MAX_RESPONSE_BYTES
               \/ /\ out[r].response.status # 200
                  /\ ErrorOf(out[r]) \in ErrorCodes
                  /\ "message" \in DOMAIN out[r].response.body

\* the request r of the preview route has ended
PreviewDone(r) == pc[r] = "done" /\ inp[r].handler = "preview"

\* C11 as claimed: every preview request ends in a 200 text/html document
\* with the og:title tag, whatever the validation, the upstream, the cache
\* and the payload did; never in another status or in an exception.
C11_AsClaimed ==
    \A r \in Requests :
        PreviewDone(r) =>
            /\ out[r].kind = "response"
            /\ out[r].response.status = 200
            /\ out[r].response.headers["Content-Type"] = "text/html; charset=utf-8"
            /\ "og:title" \in out[r].response.body.tags

\* the fetch of request r, which missed the cache, failed
FetchFailed(r) ==
    \/ up[r].kind \in {"rejected", "broken"}
    \/ up[r].kind = "response" /\ ~ResponseReceived(up[r].status, up[r].headers).ok
    \/ up[r].kind = "response" /\ ~BodyReceived(up[r].body).ok

\* the document with the title, author and subreddit of a payload's post,
\* "unknown" and "reddit" standing in for an author or subreddit it lacks
ThreadPreview(redditUrl, post) ==
    Returned(htmlResponse(
        buildOgHtml(TemplateText(post.title),
                    <<"u/">> \o TemplateText(OrElse(post.author, Str(<<"unknown">>)))
                        \o <<" in r/">>
                        \o TemplateText(OrElse(post.subreddit, Str(<<"reddit">>)))
                        \o <<" - converted to markdown">>,
                    CanonicalUrl(redditUrl)), 200))

\* C12 as claimed: the preview of a request that went upstream is the
\* fallback exactly when validation failed, the fetch failed, or the payload
\* has no post or no title; otherwise it shows the payload's title and
\* "u/<author> in r/<subreddit> - converted to markdown"; a request served
\* from the cache also ends in a document.
C12_AsClaimed ==
    \A r \in Requests :
        PreviewDone(r) =>
            IF ~val[r].ok \/ (io[r].fetch = 1 /\ FetchFailed(r))
            THEN out[r] = FallbackPreview(inp[r].url)
            ELSE IF io[r].fetch = 0
            THEN out[r].kind = "response"
            ELSE IF ~up[r].body.post.present \/ up[r].body.post.title = Undefined
            THEN out[r] = FallbackPreview(inp[r].url)
            ELSE out[r] = ThreadPreview(inp[r].url, up[r].body.post)

\* the response that request r got from the upstream passed every check
\* of the pipeline
UpstreamPassedAllChecks(r) ==
    /\ up[r].kind = "response"
    /\ up[r].status >= 200 /\ up[r].status <= 299
    /\ "content-type" \in DOMAIN up[r].headers
    /\ IncludesJson(up[r].headers["content-type"])
    /\ up[r].body.length <= MAX_RESPONSE_BYTES
    /\ up[r].body.valid

\* k is an upstream URL as validateRedditUrl derives them
IsUpstreamUrl(k) ==
    LET Shape(u) == /\ u.ok /\ u.protocol = "https:" /\ u.hostname \in ALLOWED_HOSTS
                    /\ k = <<"https:", "//", u.hostname>> \o u.pathname
                    /\ k[Len(k)] = ".json"
    IN  Shape(ParseURL(k))

\* C13: every cache entry is a body that parses as JSON and is within the
\* size ceiling, stored under an upstream URL; a request writes the cache
\* only with the body of an upstream response that passed the status, the
\* content-type, the size and the JSON check, under the URL it fetched; a
\* request whose fetch failed, at any of these checks or in transport, has
\* written nothing.
C13_OnlyCheckedResponsesCached ==
    /\ \A k \in DOMAIN cache :
          /\ IsUpstreamUrl(k)
          /\ cache[k].valid
          /\ cache[k].length <= MAX_RESPONSE_BYTES
    /\ \A r \in Requests :
          /\ (pc[r] = "put" \/ io[r].put = 1) =>
                /\ UpstreamPassedAllChecks(r)
                /\ Len(sent[r]) = 1 /\ sent[r][1].url = KeyOf(r)
          /\ (io[r].put = 1 /\ KeyOf(r) \in DOMAIN cache) => cache[KeyOf(r)] = up[r].body
          /\ (pc[r] = "done" /\ ErrorOf(out[r]) # "") => io[r].put = 0
          /\ (pc[r] = "done" /\ io[r].fetch = 1 /\ ~UpstreamPassedAllChecks(r)) =>
                io[r].put = 0

\* a request has stored the body it fetched, and the entry is in the cache
C13_Witness ==
    \E r \in Requests :
        /\ pc[r] = "done" /\ io[r].put = 1
        /\ KeyOf(r) \in DOMAIN cache
        /\ cache[KeyOf(r)] = ThreadJson
        /\ up[r].status = 299

\* what a request that is looking the cache up does next when the entry
\* of its upstream URL is there
HitStep(r) ==
    (pc[r] = "match" /\ KeyOf(r) \in DOMAIN cache /\ pc'[r] # "match") =>
        /\ pc'[r] = "done"
        /\ cache' = cache
        /\ sent'[r] = <<>>
        /\ up'[r] = NoUpstream
        /\ io'[r] = [match |-> 1, fetch |-> 0, text |-> 0, put |-> 0]
        /\ inp[r].handler = "api" =>
              out'[r] = Returned(ProxiedJson(cache[KeyOf(r)]))
        /\ inp[r].handler = "preview" =>
              out'[r] = PreviewOf(inp[r].url, cache[KeyOf(r)].post)

\* C14: when the lookup of the upstream URL hits, the request ends in that
\* step with the stored body as its result, having made no upstream request,
\* no body read and no cache write, and the entry stays as it was stored.
C14_HitServedWithoutUpstream == [][\A r \in Requests : HitStep(r)]_vars

\* an API request was answered from the cache alone
C14_Witness ==
    \E r \in Requests :
        /\ pc[r] = "done" /\ inp[r].handler = "api"
        /\ io[r] = [match |-> 1, fetch |-> 0, text |-> 0, put |-> 0]
        /\ out[r].response.status = 200
        /\ out[r].response.body = CeilingJson

\* 'application/json' occurs in ct when letters are compared without case
IncludesJsonAnyCase(ct) ==
    ct \in {"application/json", "application/json; charset=UTF-8",
            "Application/JSON; charset=UTF-8"}

\* C20 as claimed: a 2xx upstream response passes the content-type check if
\* and only if its Content-Type contains 'application/json' compared
\* case-insensitively; otherwise the answer is 502 upstream_parse_error
\* whose message carries the observed content type, or 'unknown'.
C20_AsClaimed ==
    \A r \in Requests :
        (up[r].kind = "response" /\ Ok(up[r].status)) =>
            \E got \in {HeaderGet(up[r].headers, "content-type")} :
                IF got.present /\ IncludesJsonAnyCase(got.value)
                THEN pc[r] = "text" \/ io[r].text = 1
                ELSE /\ pc[r] = "done" /\ io[r].text = 0
                     /\ inp[r].handler = "api" =>
                           /\ out[r].response.status = 502
                           /\ out[r].response.body =
                                 ErrorBody("upstream_parse_error",
                                           <<"Expected JSON, got ",
                                             IF got.present THEN got.value ELSE "unknown">>)

\* request r read the body of a 2xx response declared as JSON
ReadJsonBody(r) ==
    /\ pc[r] = "done" /\ up[r].kind = "response" /\ Ok(up[r].status)
    /\ io[r].text = 1

StatusOfCode(code) ==
    CASE code \in {"missing_url", "invalid_url", "https_required", "host_not_allowed",
                   "invalid_path"} -> 400
      [] code = "method_not_allowed" -> 405
      [] code = "rate_limited" -> 429
      [] code \in {"upstream_forbidden", "upstream_error", "upstream_parse_error",
                   "response_too_large", "upstream_unreachable"} -> 502
      [] code = "upstream_timeout" -> 504
      [] OTHER -> 0

\* request r of the API route was answered with a response that is not the 200
ApiErrorResponse(r) ==
    /\ pc[r] = "done" /\ inp[r].handler = "api"
    /\ out[r].kind = "response" /\ out[r].response.status # 200

\* C22: in every error response of the API route the error field is one of
\* the 13 codes and the status is the one status of that code; the status
\* is a function of the code, so no code goes out with two statuses.
C22_ClosedTaxonomy ==
    \A r \in Requests :
        ApiErrorResponse(r) =>
            /\ ErrorOf(out[r]) \in ErrorCodes
            /\ out[r].response.status = StatusOfCode(ErrorOf(out[r]))

\* an upstream 500 with a Retry-After header was answered 502 upstream_error
C22_Witness ==
    \E r \in Requests :
        /\ ApiErrorResponse(r)
        /\ up[r].kind = "response" /\ up[r].status = 500
        /\ "Retry-After" \in DOMAIN up[r].headers
        /\ ErrorOf(out[r]) = "upstream_error" /\ out[r].response.status = 502

\* the entities escapeHtml writes, by what follows their ampersand
Entities == {"amp;", "lt;", "gt;", "quot;"}

RECURSIVE IsEscaped(_)
\* s holds no raw '<', '>' or '"', and every '&' of s begins an entity
IsEscaped(s) ==
    IF s = <<>> THEN TRUE
    ELSE IF Head(s) \in {"<", ">", "\""} THEN FALSE
    ELSE IF Head(s) = "&"
    THEN Len(s) >= 2 /\ s[2] \in Entities /\ IsEscaped(Tail(Tail(s)))
    ELSE IsEscaped(Tail(s))

RECURSIVE HtmlDecode(_)
\* what an HTML parser reads from escaped text: each entity is one character
HtmlDecode(s) ==
    IF s = <<>> THEN <<>>
    ELSE IF Head(s) = "&" /\ Len(s) >= 2 /\ s[2] \in Entities
    THEN << CASE s[2] = "amp;" -> "&"
              [] s[2] = "lt;" -> "<"
              [] s[2] = "gt;" -> ">"
              [] OTHER -> "\"" >> \o HtmlDecode(Tail(Tail(s)))
    ELSE <<Head(s)>> \o HtmlDecode(Tail(s))

\* the document of request r was made from the payload r read itself
PreviewOfOwnPayload(r) ==
    /\ PreviewDone(r) /\ out[r].kind = "response"
    /\ io[r].put = 1 /\ up[r].body.post.present
    /\ up[r].body.post.title.t = "string" /\ up[r].body.post.title.s # <<>>

\* C24: in every preview document the title, the description and the
\* canonical URL are escaped (no raw '<', '>' or '"', every '&' begins one
\* of the four entities), the tags of the document are the fixed ones, and
\* reading the escaped text back gives the value that went in: the title of
\* the payload, its author and subreddit in the description, and the
\* canonical URL, so that nothing of a value is read as markup.
C24_DynamicValuesEscaped ==
    \A r \in Requests :
        /\ (PreviewDone(r) /\ out[r].kind = "response") =>
              /\ out[r].response.body.tags = OgTags
              /\ IsEscaped(out[r].response.body.title)
              /\ IsEscaped(out[r].response.body.description)
              /\ IsEscaped(out[r].response.body.url)
              /\ HtmlDecode(out[r].response.body.url) = CanonicalUrl(inp[r].url)
        /\ PreviewOfOwnPayload(r) =>
              /\ HtmlDecode(out[r].response.body.title) = up[r].body.post.title.s
              /\ HtmlDecode(out[r].response.body.description) =
                    <<"u/">> \o TemplateText(OrElse(up[r].body.post.author, Str(<<"unknown">>)))
                        \o <<" in r/">>
                        \o TemplateText(OrElse(up[r].body.post.subreddit, Str(<<"reddit">>)))
                        \o <<" - converted to markdown">>

\* the preview of the payload whose values hold '<', '>', '"', '&' and text
\* that reads as an entity
C24_Witness ==
    \E r \in Requests :
        /\ PreviewOfOwnPayload(r)
        /\ up[r].body = MarkupJson
        /\ out[r].response.body.title =
              <<"&", "lt;", "script", "&", "gt;", "&", "amp;", "lt;">>

\* the API answered request r with the 200
ApiSuccess(r) ==
    /\ pc[r] = "done" /\ inp[r].handler = "api"
    /\ out[r].kind = "response" /\ out[r].response.status = 200

\* C28 as claimed: every successful API response has Content-Type exactly
\* application/json, Cache-Control exactly 'public, max-age=60', and as body
\* the bytes the upstream sent; a response served from the cache has the
\* status, headers and body the fresh one had.
C28_AsClaimed ==
    \A r \in Requests :
        ApiSuccess(r) =>
            /\ DOMAIN out[r].response.headers = {"Content-Type", "Cache-Control"}
            /\ out[r].response.headers["Content-Type"] = <<"application/json">>
            /\ out[r].response.headers["Cache-Control"] = <<"public, max-age=", 60>>
            /\ io[r].fetch = 1 => out[r].response.body = up[r].wire
            /\ (io[r].fetch = 0 /\ prior[r].present) =>
                  out[r].response.body = prior[r].body

\* the code of the error the API answered request r with
ErrorCodeOf(r) == out[r].response.body.error

\* request r is over with an error of the API whose code is code
EndedWithCode(r, code) ==
    /\ pc[r] = "done" /\ out[r].kind = "response"
    /\ out[r].response.status # 200
    /\ ErrorCodeOf(r) = code

\* the content type the upstream's response came with is a JSON one, as the
\* fetcher reads it
JsonContentType(r) ==
    /\ "content-type" \in DOMAIN up[r].headers
    /\ IncludesJson(up[r].headers["content-type"])

\* where request r is, against what it has done so far: lookup, then fetch,
\* then (status and content type accepted) the body read, then (size and
\* parse accepted) the cache write
StepsInOrder(r) ==
    /\ pc[r] = "match" => io[r] = ZeroIO /\ up[r].kind = "none"
    /\ pc[r] = "fetch" =>
          io[r] = [match |-> 1, fetch |-> 1, text |-> 0, put |-> 0] /\ up[r].kind = "none"
    /\ pc[r] = "text" =>
          /\ io[r] = [match |-> 1, fetch |-> 1, text |-> 0, put |-> 0]
          /\ up[r].kind = "response" /\ Ok(up[r].status) /\ JsonContentType(r)
          /\ up[r].body = NoBody
    /\ pc[r] = "put" =>
          /\ io[r] = [match |-> 1, fetch |-> 1, text |-> 1, put |-> 0]
          /\ Ok(up[r].status) /\ JsonContentType(r)
          /\ up[r].body.length <= MAX_RESPONSE_BYTES /\ up[r].body.valid
    /\ io[r].put <= io[r].text /\ io[r].text <= io[r].fetch /\ io[r].fetch <= io[r].match

\* an API request that got a response from the upstream and is over reports
\* the earliest check that response fails
EarliestFailureReported(r) ==
    (inp[r].handler = "api" /\ pc[r] = "done" /\ up[r].kind = "response") =>
        IF up[r].status = 429
        THEN EndedWithCode(r, "rate_limited") /\ io[r].text = 0
        ELSE IF up[r].status = 403
        THEN EndedWithCode(r, "upstream_forbidden") /\ io[r].text = 0
        ELSE IF ~Ok(up[r].status)
        THEN EndedWithCode(r, "upstream_error") /\ io[r].text = 0
        ELSE IF ~JsonContentType(r)
        THEN /\ EndedWithCode(r, "upstream_parse_error")
             /\ out[r].response.body.message[1] = "Expected JSON, got "
             /\ io[r].text = 0 /\ up[r].body = NoBody
        ELSE IF up[r].body.length > MAX_RESPONSE_BYTES
        THEN /\ EndedWithCode(r, "response_too_large")
             /\ io[r].text = 1 /\ io[r].put = 0
        ELSE IF ~up[r].body.valid
        THEN /\ EndedWithCode(r, "upstream_parse_error")
             /\ out[r].response.body.message = <<"Reddit returned invalid JSON">>
             /\ io[r].text = 1 /\ io[r].put = 0
        ELSE /\ out[r].kind = "response" /\ out[r].response.status = 200
             /\ io[r] = [match |-> 1, fetch |-> 1, text |-> 1, put |-> 1]

\* C32: the fetcher's checks run in the order cache lookup, fetch, status
\* mapping, content-type check, body read, size guard, JSON parse, cache
\* write, and a response failing several checks is reported with the code of
\* the earliest one: a 429 or 403 is never a parse error whatever its
\* content type; a 2xx with a non-JSON content type is upstream_parse_error
\* and its body is never read; an oversized body that is not JSON either is
\* response_too_large.
C32_EarliestFailureWins ==
    \A r \in Requests : StepsInOrder(r) /\ EarliestFailureReported(r)

\* an oversized body that is not valid JSON was reported as too large
C32_Witness ==
    \E r \in Requests :
        /\ inp[r].handler = "api" /\ up[r].body = OversizeGarbage
        /\ EndedWithCode(r, "response_too_large")

\* the deadline timer of request r against the fetch call: none before the
\* call (and for a request that never calls fetch), pending exactly while
\* the call is unsettled, cleared or fired once it has settled
TimerFollowsFetch(r) ==
    /\ timer[r] = "pending" <=> pc[r] = "fetch"
    /\ io[r].fetch = 0 <=> timer[r] = "none"
    /\ (io[r].fetch = 1 /\ pc[r] # "fetch") =>
          /\ timer[r] \in {"cleared", "fired"}
          /\ timer[r] = "fired" =>
                up[r].kind = "rejected" /\ up[r].error = AbortError /\ pc[r] = "done"

\* the timer fires only while it is pending and the fetch call unsettled,
\* and a timer that was cleared or has fired stays so until the next request
TimerStep(r) ==
    /\ (timer'[r] = "fired" /\ timer[r] # "fired") =>
           timer[r] = "pending" /\ pc[r] = "fetch"
    /\ (timer[r] \in {"cleared", "fired"} /\ timer'[r] # timer[r]) =>
           pc[r] = "done" /\ timer'[r] = "none" /\ io'[r] = ZeroIO

\* C33: the deadline timer is cancelled on every exit path of the upstream
\* fetch: once the fetch call has settled (response, transport error or
\* abort) no timer is pending, the abort never fires after the call has
\* settled, no timer outlives its request, and a request that makes no fetch
\* call (a cache hit among them) never creates a timer.
C33_TimerCancelledOnEveryExit ==
    /\ [](\A r \in Requests : TimerFollowsFetch(r))
    /\ [][\A r \in Requests : TimerStep(r)]_vars

\* the fetch call resolved with a response whose body is still to be read:
\* the timer is cleared while the request goes on
C33_Witness ==
    \E r \in Requests :
        pc[r] = "text" /\ up[r].kind = "response" /\ timer[r] = "cleared"

----------------------------------------------------------------------------
(* Claims about interleaved requests, checked under SpecConc *)

\* request r missed the cache and went upstream
Missed(r) == io[r].match = 1 /\ io[r].fetch = 1

\* what holds of every request that missed, whatever the other one does:
\* it sent its own upstream request, a lookup that finds no entry goes
\* upstream at once (no state of the other request blocks it), and what it
\* returns is the body it read itself
OwnFetch(r) ==
    /\ Missed(r) => Len(sent[r]) = 1 /\ sent[r][1].url = KeyOf(r)
    /\ (pc[r] = "match" /\ ~CacheLookup(cache, KeyOf(r)).present) => ENABLED CacheMiss(r)
    /\ (pc[r] = "done" /\ Missed(r) /\ io[r].put = 1) =>
          /\ io[r].text = 1
          /\ inp[r].handler = "api" => out[r] = Returned(ProxiedJson(up[r].body))

\* the entry of every upstream URL is the body read by the request whose
\* write of it came last
LastWriteWins ==
    \A k \in DOMAIN cache :
        /\ k \in DOMAIN puts /\ puts[k] # <<>>
        /\ \E last \in {puts[k][Len(puts[k])]} :
              KeyOf(last) = k /\ cache[k] = up[last].body

\* C15: two requests for one upstream URL that both miss the cache both
\* fetch and neither waits for the other; each returns the body it fetched
\* itself, and each cache write replaces the entry, so that the entry is
\* the body of the write that came last.
C15_BothFetchLastWriteWins ==
    /\ \A r \in ConcRequests : OwnFetch(r)
    /\ LastWriteWins

\* both API requests for one URL missed, fetched different bodies, returned
\* their own, and the entry is the body of one of them
C15_Witness ==
    /\ \A r \in ConcRequests :
          /\ pc[r] = "done" /\ inp[r].handler = "api" /\ Missed(r) /\ io[r].put = 1
          /\ out[r].response.status = 200
          /\ out[r].response.body = up[r].body
    /\ KeyOf(1) = KeyOf(2)
    /\ up[1].body # up[2].body
    /\ puts[KeyOf(1)] = <<2, 1>>
    /\ cache[KeyOf(1)] = up[1].body

\* C16 as claimed: no upstream URL is written to the cache more than once
\* between two expiries of its entry, under every interleaving.
C16_AsClaimed ==
    \A k \in DOMAIN puts : Len(puts[k]) <= 1

\* the requests for upstream URL k that missed the cache
MissedFor(k) == {r \in ConcRequests : val[r].ok /\ KeyOf(r) = k /\ Missed(r)}

\* a request goes upstream only when its URL has no entry, and an entry
\* goes away only in a step that no request takes
WritesFollowMisses ==
    /\ \A r \in ConcRequests :
          (pc[r] = "match" /\ pc'[r] = "fetch") =>
              KeyOf(r) \notin DOMAIN cache /\ KeyOf(r) \notin DOMAIN puts
    /\ \A k \in DOMAIN cache :
          k \notin DOMAIN cache' => UNCHANGED <<pc, inp, val, timer, sent, up, out, io>>

\* C16 amended: a request writes the cache at most once, and only after its
\* own lookup missed; a request misses only while its URL has no entry, so
\* the writes of one URL between two expiries are all by requests that
\* looked it up before the first of them, one write each (two interleaved
\* requests that both miss both write); no step of a request removes an
\* entry, entries go away by expiry only.
C16_OneWritePerMissingRequest ==
    /\ [](\A r \in ConcRequests : io[r].put <= 1 /\ (io[r].put = 1 => Missed(r)))
    /\ [](\A k \in DOMAIN puts : k \in DOMAIN cache /\ Len(puts[k]) <= Cardinality(MissedFor(k)))
    /\ [][WritesFollowMisses]_vars

\* an upstream URL was written twice before its entry expired
C16_Witness ==
    \E k \in DOMAIN puts :
        /\ Len(puts[k]) = 2
        /\ Cardinality(MissedFor(k)) = 2
        /\ \A r \in ConcRequests : io[r].put = 1

\* the request that wrote the entry of upstream URL k
WriterOf(k) == puts[k][Len(puts[k])]

\* what request q does when it looks up an upstream URL whose entry is
\* there: it ends in that step, without upstream request, body read or cache
\* write, and its answer is made from the body the writer of the entry
\* read, whichever handler the writer and q came through
SharedHitStep(q) ==
    (pc[q] = "match" /\ pc'[q] # "match" /\ KeyOf(q) \in DOMAIN cache) =>
        \E w \in {WriterOf(KeyOf(q))} :
            /\ w # q /\ KeyOf(w) = KeyOf(q) /\ io[w].fetch = 1 /\ io[w].put = 1
            /\ pc'[q] = "done"
            /\ io'[q] = [match |-> 1, fetch |-> 0, text |-> 0, put |-> 0]
            /\ sent'[q] = <<>>
            /\ out'[q] = IF inp[q].handler = "api"
                         THEN Returned(ProxiedJson(up[w].body))
                         ELSE PreviewOf(inp[q].url, up[w].body.post)

\* a crawler's request that was answered from the entry another crawler's
\* request wrote shows the title that one showed
SameTitle(w, q) ==
    ( /\ inp[w].handler = "preview" /\ inp[q].handler = "preview"
      /\ pc[w] = "done" /\ pc[q] = "done"
      /\ val[w].ok /\ val[q].ok /\ KeyOf(w) = KeyOf(q)
      /\ KeyOf(w) \in DOMAIN puts /\ puts[KeyOf(w)] = <<w>>
      /\ io[q] = [match |-> 1, fetch |-> 0, text |-> 0, put |-> 0] )
    => /\ out[w].kind = out[q].kind
       /\ out[w].kind = "response" =>
              out[w].response.body.title = out[q].response.body.title

\* C29: the two handlers share one cache keyed by upstream URL: a request
\* that looks up an upstream URL whose entry has not expired, through either
\* handler, is answered from the entry with no upstream fetch, whichever
\* handler's request wrote it; and a crawler's request answered from the
\* entry of an earlier crawler's request shows the same title.
C29_HandlersShareCache ==
    /\ [][\A q \in ConcRequests : SharedHitStep(q)]_vars
    /\ [](\A w \in ConcRequests : \A q \in ConcRequests \ {w} : SameTitle(w, q))

\* a thread fetched for a crawler's preview was then served by the API from
\* the cache
C29_Witness ==
    /\ inp[1].handler = "preview" /\ inp[2].handler = "api"
    /\ pc[1] = "done" /\ pc[2] = "done"
    /\ io[1] = [match |-> 1, fetch |-> 1, text |-> 1, put |-> 1]
    /\ io[2] = [match |-> 1, fetch |-> 0, text |-> 0, put |-> 0]
    /\ out[1].response.body.title # FallbackTitle
    /\ out[2].response.status = 200
    /\ out[2].response.body = up[1].body

----------------------------------------------------------------------------
(* Claims about the entrypoint, checked under SpecRoute *)

\* a request has been routed and is the one the worker variables are about
Routed == route # "none"

\* request r was forwarded as it came and touched nothing of the worker:
\* same destination, path, query, method, headers and body; no handler
\* entered, nothing validated, no cache read or write, no upstream request;
\* and what it returned is what the origin answered
PassedThrough(r) ==
    /\ route = "passthrough"
    /\ fwd.host = raw.host /\ fwd.pathname = raw.pathname /\ fwd.url = raw.url
    /\ fwd.method = raw.method /\ fwd.hostHeader = raw.host /\ fwd.ua = raw.ua
    /\ fwd.body
    /\ inp[r] = NoRequest /\ val[r] = NotValidated
    /\ io[r] = ZeroIO /\ sent[r] = <<>> /\ up[r] = NoUpstream
    /\ pc[r] \in {"origin", "done"}
    /\ pc[r] = "done" =>
          \/ out[r].kind = "thrown"
          \/ out[r].kind = "response" /\ out[r].response \in OriginResponses

\* C17 as claimed: every request whose path is neither exactly /reddit nor
\* begins with /reddit/ is passed through.
C17_AsClaimed ==
    \A r \in Requests :
        (Routed /\ raw.pathname # PREFIX /\ ~StartsWith(raw.pathname, PREFIX \o <<"/">>))
            => PassedThrough(r)

\* C17 amended: every request whose path does not begin with the letters
\* /reddit is forwarded unchanged to its original destination and the
\* origin's response returned as it is; it reaches neither the API proxy,
\* the preview synthesizer nor the asset proxy and reads and writes no cache
\* entry.  (A path such as /redditor begins with /reddit and is inside.)
C17_OutsidePrefixPassedThrough ==
    \A r \in Requests :
        (Routed /\ ~StartsWith(raw.pathname, PREFIX)) => PassedThrough(r)

\* a POST outside the prefix, with a thread as url parameter and a crawler's
\* User-Agent, came back with the origin's answer
C17_Witness ==
    /\ route = "passthrough" /\ raw.method = "POST"
    /\ raw.pathname = <<"/", "other-page">>
    /\ raw.url = OldThread /\ raw.ua = Param(BOT_UA)
    /\ pc[1] = "done" /\ out[1].kind = "response" /\ out[1].response.status = 404

\* C18: every request to /reddit/api/fetch whose method is not GET is
\* answered 405 method_not_allowed by the API proxy, whatever its url
\* parameter and User-Agent, and nothing was validated, looked up in the
\* cache, fetched or forwarded for it.
C18_NonGetApiIs405 ==
    \A r \in Requests :
        (Routed /\ raw.pathname = API_ROUTE /\ raw.method # "GET") =>
            /\ route = "api" /\ inp[r].handler = "api"
            /\ pc[r] = "done"
            /\ out[r].kind = "response"
            /\ out[r].response.status = 405
            /\ out[r].response.body = [error |-> "method_not_allowed"]
            /\ val[r] = NotValidated
            /\ io[r] = ZeroIO /\ sent[r] = <<>> /\ up[r] = NoUpstream
            /\ fwd = NoForward

\* a crawler's POST to the API route with a thread as url parameter got 405
C18_Witness ==
    /\ raw.pathname = API_ROUTE /\ raw.method = "POST"
    /\ raw.url = OldThread /\ raw.ua = Param(BOT_UA)
    /\ pc[1] = "done" /\ out[1].response.status = 405

\* the User-Agent headers of UserAgents that name a crawler of the list
CrawlerAgents == { Param(BOT_UA), Param(<<"TwitterBot", "/1.0">>) }

\* what each branch of the entrypoint leaves behind for request r: the two
\* forwarding branches a forwarded request and no handler, the two handlers
\* a handler entered with the url parameter and nothing forwarded
BranchTaken(r) ==
    /\ route \in {"passthrough", "api", "preview", "pages"}
    /\ route = "passthrough" => PassedThrough(r)
    /\ route = "pages" =>
          /\ fwd.hostHeader = PAGES_HOST /\ ~fwd.body
          /\ fwd.url = raw.url /\ fwd.method = raw.method /\ fwd.ua = raw.ua
          /\ inp[r] = NoRequest /\ io[r] = ZeroIO /\ sent[r] = <<>>
    /\ route \in {"api", "preview"} =>
          /\ fwd = NoForward
          /\ inp[r] = Request(route, raw.method, raw.url)

\* the dispatch rules common to the claim and its amendment
DispatchRules(r, HasTarget(_)) ==
    Routed =>
        /\ BranchTaken(r)
        /\ route = "passthrough" <=> ~StartsWith(raw.pathname, PREFIX)
        /\ route = "api" <=> raw.pathname = API_ROUTE
        /\ route = "preview" <=>
              /\ StartsWith(raw.pathname, PREFIX) /\ raw.pathname # API_ROUTE
              /\ HasTarget(raw.url) /\ raw.ua \in CrawlerAgents

\* C19 as claimed: a non-API path under the prefix goes to the preview
\* synthesizer if and only if a url parameter is present, with any value,
\* and the User-Agent is a crawler's.
C19_AsClaimed ==
    LET Present(u) == u.present
    IN  \A r \in Requests : DispatchRules(r, Present)

\* C19 amended: every request is handled by exactly one of passthrough, API
\* proxy, preview synthesizer and asset proxy; the API route is always the
\* API proxy's, crawler or not; a non-API path under the prefix goes to the
\* preview synthesizer if and only if the url parameter is present and not
\* empty (valid or not) and the User-Agent is a crawler's, and to the asset
\* proxy otherwise (crawler without url or with an empty url, or non-crawler
\* with url).
C19_FirstMatchDispatch ==
    \A r \in Requests : DispatchRules(r, Truthy)

\* a crawler whose name is spelt in another case than the list's asked for
\* a page with a url parameter that is no URL, and got the preview; and the
\* worker variables show the handler that ran
C19_Witness ==
    /\ route = "preview" /\ raw.pathname = PREFIX \o <<"/", "anything">>
    /\ raw.url = Param(<<"not-a-url">>) /\ raw.ua = Param(<<"TwitterBot", "/1.0">>)
    /\ pc[1] = "done" /\ inp[1].handler = "preview"
    /\ out[1].kind = "response" /\ out[1].response.status = 200

\* the crawler's request ended in a document
PreviewShown(r) ==
    /\ route = "preview" /\ pc[r] = "done"
    /\ out[r].kind = "response" /\ out[r].response.status = 200

\* the percent-encoded text of the url parameters that reach the preview
EncodedTarget(u) ==
    IF u = OldThread
    THEN <<"https%3A", "%2F%2F", "old.reddit.com", "%2F", "r", "%2F", "test", "%2F",
           "comments", "%2F", "abc123">>
    ELSE u.text

\* the URL of the inbound request up to the value of its url parameter
RequestUrlHead(request) ==
    CASE request.pathname = PREFIX -> "https://peirce.net/reddit?url="
      [] request.pathname = PREFIX \o <<"/">> -> "https://peirce.net/reddit/?url="
      [] request.pathname = PREFIX \o <<"or">> -> "https://peirce.net/redditor?url="
      [] request.pathname = PREFIX \o <<"/", "anything">>
            -> "https://peirce.net/reddit/anything?url="
      [] request.pathname = API_ROUTE \o <<"/">>
            -> "https://peirce.net/reddit/api/fetch/?url="
      [] OTHER -> "https://peirce.net/reddit//evil.com/x?url="

\* C23 as claimed: the canonical URL of every preview is the URL of the
\* request itself, its own path under the prefix with its url parameter.
C23_AsClaimed ==
    \A r \in Requests :
        PreviewShown(r) =>
            out[r].response.body.url = <<RequestUrlHead(raw)>> \o EncodedTarget(raw.url)

\* C23 amended: in every preview, success or fallback, the canonical URL of
\* og:url and of the visible link is https://peirce.net/reddit?url= followed
\* by the percent-encoded url parameter, whatever the path under the prefix
\* the crawler asked for: requests for /reddit and /reddit/anything with one
\* target get the same canonical URL.
C23_CanonicalUrlIsFixedPage ==
    \A r \in Requests :
        PreviewShown(r) =>
            out[r].response.body.url =
                <<"https://peirce.net/reddit?url=">> \o EncodedTarget(raw.url)

\* the preview of a thread asked for under /reddit/anything names /reddit
C23_Witness ==
    /\ PreviewShown(1)
    /\ raw.pathname = PREFIX \o <<"/", "anything">> /\ raw.url = OldThread
    /\ io[1].fetch = 1
    /\ out[1].response.body.title # FallbackTitle
    /\ Head(out[1].response.body.url) = "https://peirce.net/reddit?url="

\* the path is /reddit itself or begins with /reddit/
UnderPrefix(pathname) == pathname = PREFIX \/ StartsWith(pathname, PREFIX \o <<"/">>)

\* the path with /reddit taken off its front once
WithoutPrefix(pathname) ==
    IF Len(pathname) <= 3 THEN <<"/">> ELSE <<"/">> \o SubSeq(pathname, 4, Len(pathname))

\* C26 as claimed: a request under the prefix that the asset proxy handles
\* is sent once to the static origin, with /reddit stripped once from the
\* path, the same method, query string and headers but for Host, which is
\* the origin's; the origin's response is returned unchanged; no cache
\* entry is read or written and nothing is sent twice.
C26_AsClaimed ==
    \A r \in Requests :
        (route = "pages" /\ UnderPrefix(raw.pathname)) =>
            /\ fwd.host = PAGES_HOST
            /\ fwd.pathname = WithoutPrefix(raw.pathname)
            /\ fwd.method = raw.method /\ fwd.url = raw.url /\ fwd.ua = raw.ua
            /\ fwd.hostHeader = PAGES_HOST
            /\ io[r] = ZeroIO /\ sent[r] = <<>>
            /\ pc[r] \in {"origin", "done"}
            /\ pc[r] = "done" =>
                  \/ out[r].kind = "thrown"
                  \/ out[r].kind = "response" /\ out[r].response \in OriginResponses

\* the attempts request r has made: upstream requests to Reddit are
\* counted by the fetcher's fetch() calls and listed in sent; an origin
\* fetch is the one forwarded request of the forwarding branches
AtMostOneAttempt(r) ==
    /\ io[r].fetch <= 1
    /\ Len(sent[r]) = io[r].fetch
    /\ route \in {"api", "preview"} => fwd = NoForward /\ pc[r] # "origin"
    /\ route \in {"pages", "passthrough"} =>
          /\ io[r].fetch = 0 /\ sent[r] = <<>>
          /\ fwd # NoForward
          /\ pc[r] \in {"origin", "done"}

\* the upstream attempt of r has failed: fetch() rejected, the deadline
\* fired, or the status or content type was refused
AttemptFailed(r) ==
    \/ up[r].kind = "rejected"
    \/ up[r].kind = "response" /\ ~ResponseReceived(up[r].status, up[r].headers).ok

\* one step of request r: an attempt is made only on the way in (from the
\* cache lookup, or when the request is forwarded); when the attempt is
\* over no other follows, and when it failed the request is over with it
NoSecondAttempt(r) ==
    /\ (pc'[r] = "fetch" /\ pc[r] # "fetch") =>
           pc[r] = "match" /\ io[r].fetch = 0 /\ sent[r] = <<>>
    /\ (pc[r] = "fetch" /\ pc'[r] = "fetch") => sent'[r] = sent[r]
    /\ (pc[r] = "fetch" /\ pc'[r] # "fetch") =>
           /\ sent'[r] = sent[r] /\ io'[r].fetch = io[r].fetch
           /\ pc'[r] \in {"text", "done"}
           /\ AttemptFailed(r)' => pc'[r] = "done" /\ out'[r].kind = "response"
    /\ (pc[r] \in {"text", "put"} /\ pc'[r] # pc[r]) =>
           /\ sent'[r] = sent[r] /\ io'[r].fetch = io[r].fetch
           /\ pc'[r] \in {"put", "done"}
    /\ (pc'[r] = "origin" /\ pc[r] # "origin") => pc[r] \in {"idle", "done"}
    /\ pc[r] = "origin" =>
           /\ fwd' = fwd /\ sent'[r] = <<>>
           /\ pc'[r] \in {"origin", "done"}
           /\ pc'[r] = "done" =>
                 \/ out'[r].kind = "thrown"
                 \/ out'[r].kind = "response" /\ out'[r].response \in OriginResponses
    /\ (pc[r] = "done" /\ pc'[r] # "done") =>
           io'[r] = ZeroIO /\ sent'[r] = <<>> /\ pc'[r] \in {"match", "origin"}

\* C30: nothing is retried: an inbound request makes at most one upstream
\* fetch attempt to Reddit (API and preview branches, none at all when
\* forwarded) or one origin fetch (asset proxy and passthrough, none at all
\* in the other branches), whatever the attempt's outcome, and a failed
\* attempt ends the request.
C30_NoRetry ==
    /\ [](\A r \in Requests : AtMostOneAttempt(r))
    /\ [][\A r \in Requests : NoSecondAttempt(r)]_vars

\* an API request whose one upstream attempt was rejected is over, answered
\* with the error
C30_Witness ==
    \E r \in Requests :
        /\ route = "api" /\ pc[r] = "done"
        /\ up[r].kind = "rejected"
        /\ io[r].fetch = 1 /\ Len(sent[r]) = 1
        /\ out[r].kind = "response" /\ out[r].response.status >= 500

----------------------------------------------------------------------------
(* Claims about requests over two threads, checked under SpecShare *)

\* the step is the expiry of an entry: no request moves
ExpiryStep ==
    /\ \E k \in DOMAIN cache : cache' = [j \in DOMAIN cache \ {k} |-> cache[j]]
    /\ UNCHANGED <<pc, inp, val, timer, sent, up, out, io, raw, route, fwd>>

\* the step is the cache write of request r: the entry of its own upstream
\* URL becomes the body it read, every other entry stays as it was
OwnWriteStep(r) ==
    /\ pc[r] = "put" /\ pc'[r] = "done"
    /\ route \in {"api", "preview"} /\ val[r].ok
    /\ io[r].put = 0 /\ io'[r].put = 1
    /\ DOMAIN cache' = DOMAIN cache \cup {KeyOf(r)}
    /\ cache'[KeyOf(r)] = up[r].body
    /\ \A k \in DOMAIN cache \ {KeyOf(r)} : cache'[k] = cache[k]

\* the cache changes only by expiry and by a request's write of its own key
CacheFrame ==
    cache' # cache => ExpiryStep \/ \E r \in Requests : OwnWriteStep(r)

\* the lookup of request r is decided by the entry of its own upstream URL
\* and answered from it, whatever the other entries are
OwnReadStep(r) ==
    (pc[r] = "match" /\ pc'[r] # "match") =>
        /\ cache' = cache
        /\ IF KeyOf(r) \in DOMAIN cache
           THEN pc'[r] = "done" /\ out'[r] = OnFetched(inp[r], cache[KeyOf(r)])
           ELSE pc'[r] = "fetch" /\ sent'[r] = <<UpstreamRequest(KeyOf(r), inp[r])>>

\* every step of request r but its cache write leaves the whole cache as it
\* was: the new request's arrival, validation, refusal or forwarding, the
\* lookup, the fetch and its failures, the body read and its failures
OtherStepsLeaveCache(r) ==
    (pc'[r] # pc[r] /\ pc[r] # "put") => cache' = cache

\* the fetch of request r failed: rejected or timed out, status or content
\* type refused, body broken, too large or not JSON
FetchEndedFailed(r) ==
    \/ up[r].kind \in {"rejected", "broken"}
    \/ up[r].kind = "response" /\ ~ResponseReceived(up[r].status, up[r].headers).ok
    \/ up[r].kind = "response" /\ io[r].text = 1 /\ ~BodyReceived(up[r].body).ok

\* what a finished request has done to the cache: nothing at all, not even a
\* lookup, when it was forwarded, refused or failed validation; no write
\* when its fetch failed
TouchedOwnKeyOnly(r) ==
    /\ route \in {"pages", "passthrough"} => io[r] = ZeroIO /\ val[r] = NotValidated
    /\ (route \in {"api", "preview"} /\ ~val[r].ok) => pc[r] = "done" /\ io[r] = ZeroIO
    /\ FetchEndedFailed(r) => io[r].put = 0 /\ io[r].match = 1
    /\ io[r].match <= 1 /\ io[r].put <= 1

\* C35: a request reads at most the cache entry of its own upstream URL and
\* writes at most that entry, leaving every other entry unchanged; a request
\* that ends in a validation error, a 405 or a failed fetch, or that is
\* forwarded (asset proxy, passthrough), leaves the whole cache unchanged;
\* between requests nothing but the cache is carried over.
C35_RequestsTouchOwnKeyOnly ==
    /\ [](\A r \in Requests : TouchedOwnKeyOnly(r))
    /\ [][ /\ CacheFrame
           /\ \A r \in Requests : OwnReadStep(r) /\ OtherStepsLeaveCache(r)
           /\ \A r \in Requests :
                 (raw' # raw \/ (pc[r] = "done" /\ pc'[r] # "done")) =>
                    /\ up'[r] = NoUpstream /\ sent'[r] = <<>> /\ io'[r] = ZeroIO
                    /\ timer'[r] = "none"
                    /\ val'[r] \in {NotValidated, validateRedditUrl(raw'.url)} ]_vars

\* a request wrote the entry of its thread into a cache holding the entry of
\* the other thread, which is still what it was
C35_Witness ==
    \E r \in Requests :
        /\ pc[r] = "done" /\ io[r].put = 1
        /\ KeyOf(r) = validateRedditUrl(DirtyThread).jsonUrl
        /\ KeyOf(r) \in DOMAIN cache /\ cache[KeyOf(r)] = ThreadJson
        /\ \E k \in DOMAIN cache : k # KeyOf(r) /\ cache[k] = MarkupJson

\* the one upstream request there is for a url parameter: a GET of the
\* upstream URL the validator derived, with the fixed User-Agent and no
\* other header, and no body
UpstreamOf(target) ==
    [method |-> "GET", url |-> validateRedditUrl(target).jsonUrl,
     headers |-> [h \in {"User-Agent"} |-> UPSTREAM_UA]]

\* C36: the upstream request depends only on the validated target: whatever
\* the method, the User-Agent and the other headers and the body of the
\* inbound API or preview request, the request sent to Reddit is the GET of
\* the derived upstream URL carrying the fixed identifying User-Agent and
\* nothing else, so two requests with the same target send identical
\* upstream requests; nothing the client supplied but the target reaches
\* Reddit.
C36_UpstreamRequestFromTargetOnly ==
    \A r \in Requests :
        /\ Len(sent[r]) <= 1
        /\ sent[r] # <<>> =>
              /\ route \in {"api", "preview"}
              /\ val[r].ok
              /\ sent[r][1] = UpstreamOf(raw.url)
              /\ DOMAIN sent[r][1] = {"method", "url", "headers"}
              /\ DOMAIN sent[r][1].headers = {"User-Agent"}
              /\ Param(<<sent[r][1].headers["User-Agent"]>>) # raw.ua

\* a crawler's POST for a target with credentials, port, query and fragment
\* was sent upstream as the plain GET of the derived URL
C36_Witness ==
    \E r \in Requests :
        /\ raw.method = "POST" /\ raw.ua = Param(BOT_UA) /\ raw.url = DirtyThread
        /\ route = "preview"
        /\ sent[r] = <<UpstreamOf(DirtyThread)>>
        /\ sent[r][1].url # DirtyThread.text

----------------------------------------------------------------------------
(* Claims about the crawler detector, checked under SpecDetect *)

\* the eight names of the list in every spelling that AgentTokens holds
CrawlerNames ==
    {"Slackbot", "slackbot", "Discordbot", "Twitterbot", "TwitterBot",
     "facebookexternalhit", "FacebookExternalHit", "LinkedInBot", "AppleBot",
     "WhatsApp", "WHATSAPP", "TelegramBot"}

\* C25: isCrawler answers yes exactly for the User-Agents that hold one of
\* the eight names, in whatever case it is spelt, and an absent or empty
\* User-Agent is never a crawler.
C25_CrawlerIffListedName ==
    crawler # "untested" =>
        /\ crawler = "yes" <=>
              /\ agent.present
              /\ \E i \in 1..Len(agent.text) : agent.text[i] \in CrawlerNames
        /\ (~agent.present \/ agent.text = <<>>) => crawler = "no"

\* a crawler was detected by a name spelt in another case than the list's,
\* after a piece that names none
C25_Witness ==
    /\ crawler = "yes"
    /\ agent = Param(<<"Mozilla/5.0 ", "WHATSAPP">>)


----------------------------------------------------------------------------
(* Claims about the browser client, checked under SpecClient *)

\* the direct attempt failed: it threw, came back with a status that is not
\* ok, or with a body that is not JSON
DirectFailed ==
    \/ direct.kind = "rejected"
    \/ direct.kind = "response" /\ ~Ok(direct.status)
    \/ direct.kind = "response" /\ direct.body = "not-json"

\* the fetch calls of a conversion: the direct one first, to the thread's
\* .json URL past the browser's cache, and then at most the proxy's, to the
\* same-origin api/fetch with the submitted URL as its url parameter
DirectThenProxy ==
    /\ cpc # "idle" => Len(calls) >= 1
    /\ Len(calls) <= 2
    /\ Len(calls) >= 1 => calls[1] = FetchCall("direct", JsonUrl(formUrl), "no-store")
    /\ Len(calls) = 2 =>
          /\ calls[2].to = "proxy"
          /\ calls[2].url = BASE_URL \o <<"api/fetch?url=">> \o encodeURIComponent(formUrl)
          /\ DirectFailed
    /\ cpc \in {"direct", "directJson"} => Len(calls) = 1
    /\ cpc \in {"proxy", "proxyError", "proxyJson"} => Len(calls) = 2
    /\ (direct.kind = "response" /\ Ok(direct.status) /\ direct.body = "json") =>
          Len(calls) = 1 /\ cpc = "done"

\* the proxy is called in the step in which the direct attempt fails
ProxyCalledOnFailure ==
    /\ Len(calls') > Len(calls) =>
          \/ Len(calls') = 1 /\ cpc' = "direct"
          \/ Len(calls') = 2 /\ cpc \in {"direct", "directJson"} /\ cpc' = "proxy"
                /\ ~DirectFailed /\ DirectFailed'
    /\ (~DirectFailed /\ DirectFailed') => Len(calls') = 2 /\ cpc' = "proxy"

Converting ==
    cpc \in {"direct", "directJson", "proxy", "proxyError", "proxyJson"} =>
        loading /\ Len(error) = 0 /\ submits = <<>>

\* a conversion is over: loading is off, and either onSubmit was called once,
\* with the markdown and the title of the payload, and no error is set, or an
\* error is set and onSubmit was not called
ConvertedOrFailed ==
    cpc = "done" =>
        /\ ~loading
        /\ \/ /\ Len(submits) = 1 /\ Len(error) = 0
              /\ DOMAIN submits[1] = {"markdown", "title"}
              /\ submits = Completed(data).submits
              /\ submits[1].title = data.post.title
              /\ Len(submits[1].markdown) > 0
           \/ /\ submits = <<>> /\ Len(error) > 0

\* convert starts by setting loading and clearing the error, whatever the
\* conversion before left, and loading goes off only when the conversion ends
StartsAndEnds ==
    /\ (cpc \in {"idle", "done"} /\ cpc' \notin {"idle", "done"}) =>
           loading' /\ Len(error') = 0 /\ submits' = <<>> /\ cpc' = "direct"
    /\ (loading /\ ~loading') => cpc' = "done" /\ cpc # "done"
    /\ (cpc = "done" /\ cpc' = "done") => UNCHANGED <<loading, error, submits>>

\* C37: in convert loading is set and the previous error cleared when a
\* conversion starts; loading is off again after every way the conversion
\* can end (success, failure of the direct attempt and of the proxy, an
\* error response of the proxy, a payload that is not JSON or not a thread,
\* an exception); and each conversion ends either with onSubmit called once
\* with markdown and title and no error set, or with an error set and
\* onSubmit not called.
C37_LoadingAndOneOutcome ==
    /\ [](Converting /\ ConvertedOrFailed)
    /\ [][StartsAndEnds]_vars

\* a conversion that threw while the comments were walked is over: the
\* error is set, loading is off, nothing was submitted
C37_Witness ==
    /\ cpc = "done" /\ ~loading
    /\ data = BodilessPage
    /\ error = <<"Unexpected error: ", "TypeError">>
    /\ submits = <<>>

====
